---- MODULE Spec2Model ----
(***************************************************************************)
(* Flow definition and execution engine of selfAgent:                      *)
(*   components/flow_manager.py      FlowManager (versioned flow store)    *)
(*   components/executor.py          Executor (runs a flow step by step)   *)
(*   components/connector_manager.py ConnectorManager (connector registry) *)
(*   database.py                     Flow, FlowVersion, Run, RunStep rows  *)
(*                                                                         *)
(* The persisted state is the four tables plus the per-version YAML files  *)
(* flows/<flow_id>/v<version_no>.yaml.  Every commit of the executor is a  *)
(* separate step of the model, so the states between two commits of one    *)
(* execute_flow call are states of the model.                              *)
(***************************************************************************)
EXTENDS Integers, Sequences, FiniteSets, TLC

VARIABLES
    flows,          \* table flows: id -> [name, current_version]
    flow_versions,  \* table flow_versions, in rowid order: [flow_id, version_no, filename]
    files,          \* flows/<id>/v<n>.yaml: <<id, n>> -> dumped flow content
    runs,           \* table runs: id -> [flow_id, version_no, status, finished_at]
    run_steps,      \* table run_steps, in rowid order
    ex,             \* the execute_flow call in progress (its locals and position)
    reg,            \* the last direct ConnectorManager.run_connector call
    last,           \* history: the last FlowManager / Executor call and its outcome
    hist,           \* history: per flow id, the successful modifications of the flow;
                    \* per version, the step list it was created with
    connectors,     \* table connectors, in rowid order: [name, type, capabilities]
    sess,           \* per database session: the call it is in and the call's locals
    val             \* the last FlowManager.validate_flow call: its argument and result

vars == <<flows, flow_versions, files, runs, run_steps, ex, reg, last, hist, connectors,
          sess, val>>

(***************************************************************************)
(* Bounds of the model.                                                    *)
(***************************************************************************)
MaxFlows == 2        \* largest flow id given out
MaxVersionRows == 3  \* FlowVersion rows stored at the same time
MaxLen == 2          \* length of a step list given to create_flow / update_flow
MaxExecLen == 3      \* length of a step list that is executed
MaxRuns == 2         \* largest run id given out
MaxErrLen == 1       \* length of a step list created in the error-handling specification
MaxDispatchLen == 2  \* length of a step list executed in the dispatch specification
MaxValLen == 3       \* length of a step list given to validate_flow
MaxPairLen == 2      \* length of the step list two concurrent runs execute

(***************************************************************************)
(* Python values.  A dict is a record over all the keys the engine reads;  *)
(* a key the dict does not have holds Absent.  None is the value of        *)
(* dict.get(key) for such a key.  Identifiers range over non-empty         *)
(* strings: Python's "not x" treats the empty string like a missing        *)
(* argument (flow_manager.py lines 188, 207, 224).                         *)
(***************************************************************************)
Absent == "<absent>"
None == "<None>"
NoVersion == 0   \* version_no = None, the default of the parameter

\* dict.get(key, default)
Get(d, key, default) == IF d[key] = Absent THEN default ELSE d[key]

Max(S) == CHOOSE x \in S : \A y \in S : y <= x

\* SQLite rowid of a new row of a table whose primary key is
\* "id INTEGER NOT NULL, PRIMARY KEY (id)": one more than the largest id stored
\* (SQLAlchemy renders AUTOINCREMENT only under sqlite_autoincrement=True), so
\* the id of a deleted last row is given out again.
NewId(ids) == IF ids = {} THEN 1 ELSE Max(ids) + 1

RECURSIVE SeqsUpTo(_, _)
SeqsUpTo(S, n) ==
    IF n = 0 THEN {<<>>}
    ELSE LET shorter == SeqsUpTo(S, n - 1)
         IN  shorter \cup {Append(s, x) : s \in {t \in shorter : Len(t) = n - 1}, x \in S}

(***************************************************************************)
(* Steps.  The keys the engine reads: id, name, connector, action, onError  *)
(* and retry (executor.py 86-90, 119, 132).  params is the same mapping in *)
(* every step.  A value that is not a string is written as its YAML text.  *)
(***************************************************************************)
StepKeys == <<"action", "connector", "id", "name", "onError", "retry">>

MkStep(id, name, connector, action, onError) ==
    [id |-> id, name |-> name, connector |-> connector, action |-> action,
     onError |-> onError, retry |-> Absent]

\* retry: {enabled: true, max_attempts: 3}
RetryEnabled == "{enabled: true, max_attempts: 3}"

\* the step with a retry configuration
WithRetry(step, retry) == [step EXCEPT !.retry = retry]

\* connector: [sql], a list where the name of a connector is expected
ListOfNames == "[sql]"

\* bool(x) of a value read with dict.get
Truthy(x) == x \notin {Absent, None, ""}

\* yaml.dump(..., default_flow_style=False) of one step: a block mapping of the
\* keys the dict has, sorted by key.
DumpStep(step) ==
    LET present == SelectSeq(StepKeys, LAMBDA k : step[k] # Absent)
    IN  [i \in 1..Len(present) |-> <<present[i], step[present[i]]>>]

\* yaml.safe_load of such a mapping: the dict of its pairs.
LoadStep(pairs) ==
    [k \in {StepKeys[i] : i \in 1..Len(StepKeys)} |->
        IF \E i \in 1..Len(pairs) : pairs[i][1] = k
        THEN LET i == CHOOSE i \in 1..Len(pairs) : pairs[i][1] = k IN pairs[i][2]
        ELSE Absent]

DumpSteps(steps) == [i \in 1..Len(steps) |-> DumpStep(steps[i])]
LoadSteps(dumped) == [i \in 1..Len(dumped) |-> LoadStep(dumped[i])]

(***************************************************************************)
(* Connectors (connector_manager.py).  A result dict is a record of the    *)
(* keys it has; a formatted message is the tuple of its parts.             *)
(***************************************************************************)
\* dict.get on the params mapping, whose keys differ from step to step
PGet(params, key) == IF key \in DOMAIN params THEN params[key] ELSE ""

SeqToSet(s) == {s[i] : i \in 1..Len(s)}

UnknownAction(action) == [status |-> "error", message |-> <<"Unknown action: ", action>>]

SQLCapabilities == <<"query", "insert", "update", "delete", "execute">>

SQLRun(action, params) ==
    CASE action = "query" ->
            [status |-> "success", action |-> action,
             result |-> <<"Executed query: ", PGet(params, "query")>>, rows_affected |-> 0]
      [] action = "insert" ->
            [status |-> "success", action |-> action,
             result |-> <<"Inserted into ", PGet(params, "table")>>, rows_affected |-> 1]
      [] action = "update" ->
            [status |-> "success", action |-> action,
             result |-> <<"Updated ", PGet(params, "table")>>, rows_affected |-> 1]
      [] action = "delete" ->
            [status |-> "success", action |-> action,
             result |-> <<"Deleted from ", PGet(params, "table")>>, rows_affected |-> 1]
      [] OTHER -> UnknownAction(action)

SharePointCapabilities == <<"read_file", "write_file", "list_files", "upload", "download">>

SharePointRun(action, params) ==
    CASE action = "read_file" ->
            [status |-> "success", action |-> action,
             result |-> <<"Read file: ", PGet(params, "filename")>>,
             content |-> "Sample file content"]
      [] action = "write_file" ->
            [status |-> "success", action |-> action,
             result |-> <<"Wrote file: ", PGet(params, "filename")>>]
      [] action = "list_files" ->
            [status |-> "success", action |-> action,
             files |-> <<"file1.txt", "file2.pdf", "file3.xlsx">>]
      [] OTHER -> UnknownAction(action)

EmailCapabilities == <<"send", "read", "list">>

EmailRun(action, params) ==
    CASE action = "send" ->
            [status |-> "success", action |-> action,
             result |-> <<"Sent email to ", PGet(params, "to")>>, message_id |-> "msg_12345"]
      [] action = "read" ->
            [status |-> "success", action |-> action, result |-> <<"Read email">>,
             subject |-> PGet(params, "subject"), body |-> "Email body content"]
      [] OTHER -> UnknownAction(action)

NotificationCapabilities == <<"send_notification", "send_alert">>

NotificationRun(action, params) ==
    [status |-> "success", action |-> action,
     result |-> <<"Sent notification: ", PGet(params, "message")>>,
     notification_id |-> "notif_12345"]

\* ConnectorManager.connectors, in insertion order
ConnectorNames == <<"sql", "sharepoint", "email", "notification">>

\* ConnectorManager.get_connector(name) is not None
IsRegistered(name) == name \in SeqToSet(ConnectorNames)

\* connector.capabilities() of the registered connector name
Capabilities(name) ==
    CASE name = "sql" -> SQLCapabilities
      [] name = "sharepoint" -> SharePointCapabilities
      [] name = "email" -> EmailCapabilities
      [] name = "notification" -> NotificationCapabilities

\* connector.run(action, params) of the registered connector name
AdapterRun(name, action, params) ==
    CASE name = "sql" -> SQLRun(action, params)
      [] name = "sharepoint" -> SharePointRun(action, params)
      [] name = "email" -> EmailRun(action, params)
      [] name = "notification" -> NotificationRun(action, params)

\* run_connector without the capability check of lines 208-213
run_connector_Unchecked(connector_name, action, params) ==
    IF ~IsRegistered(connector_name)
    THEN [result |-> [status |-> "error",
                      message |-> <<"Connector not found: ", connector_name>>,
                      suggestion |-> <<"Available connectors: ", ConnectorNames>>],
          adapter_calls |-> <<>>]
    ELSE [result |-> AdapterRun(connector_name, action, params),
          adapter_calls |-> << <<connector_name, action, params>> >>]

\* ConnectorManager.run_connector: the returned dict and the adapter calls made
run_connector(connector_name, action, params) ==
    IF ~IsRegistered(connector_name)
    THEN [result |-> [status |-> "error",
                      message |-> <<"Connector not found: ", connector_name>>,
                      suggestion |-> <<"Available connectors: ", ConnectorNames>>],
          adapter_calls |-> <<>>]
    ELSE IF action \notin SeqToSet(Capabilities(connector_name))
    THEN [result |-> [status |-> "error",
                      message |-> <<"Action ", action, " not supported by ", connector_name>>,
                      supported_actions |-> Capabilities(connector_name)],
          adapter_calls |-> <<>>]
    ELSE [result |-> AdapterRun(connector_name, action, params),
          adapter_calls |-> << <<connector_name, action, params>> >>]

(***************************************************************************)
(* Inputs.                                                                 *)
(***************************************************************************)
FlowNames == {"Echo"}
StepIds == {"a", "b"}

\* The steps of the flow-store specification: two steps of the same id that
\* differ in their action, and a step of another id.
StoreSteps ==
    {MkStep("a", "step", "sql", "query", Absent), MkStep("a", "step", "sql", "bogus", Absent),
     MkStep("b", "step", "sql", "query", Absent)}

\* new_step = {} (or None): "not new_step" holds
EmptyStep == MkStep(Absent, Absent, Absent, Absent, Absent)

(***************************************************************************)
(* History records.                                                        *)
(***************************************************************************)
NoArgs == [action |-> None, anchor_step_id |-> None, position |-> None,
           new_step |-> EmptyStep, step_id |-> None]

\* op(flow_id, args): found = the flow existed; ok = it did not raise; before =
\* the step list it loaded; steps = the step list it stored or executed
Call(op, flow_id, found, ok, error, args, before, steps, run_id) ==
    [op |-> op, flow_id |-> flow_id, found |-> found, ok |-> ok, error |-> error,
     args |-> args, before |-> before, steps |-> steps, run_id |-> run_id]

Failed(op, flow_id, found, error) ==
    Call(op, flow_id, found, FALSE, error, NoArgs, <<>>, <<>>, 0)

\* log: what the call did so far, as <<event, position in the step list>>;
\* exc: the message of the exception that is propagating
ExIdle == [pc |-> "idle", flow_id |-> 0, run_id |-> 0, requested |-> 0, version_no |-> 0,
           steps |-> <<>>, i |-> 0, row |-> 0, calls |-> <<>>, raised |-> FALSE,
           log |-> <<>>, exc |-> <<>>]

\* no execute_flow call is in progress: the handlers run one at a time
Quiet == ex.pc \in {"idle", "done"}

(***************************************************************************)
(* FlowManager (flow_manager.py).                                          *)
(***************************************************************************)
Without(f, x) == [y \in DOMAIN f \ {x} |-> f[y]]

\* history: version version_no of the flow was created with these steps (what
\* load_flow_content returns for it from then on, when its file is not rewritten)
Created(created, flow_id, version_no, steps) ==
    IF <<flow_id, version_no>> \in DOMAIN created THEN created
    ELSE (<<flow_id, version_no>> :> LoadSteps(DumpSteps(steps))) @@ created

\* FlowManager.get_flow(flow_id) is not None
HasFlow(flow_id) == flow_id \in DOMAIN flows

\* rows of flow_versions matching flow_id and version_no, in rowid order
VersionRows(flow_id, version_no) ==
    SelectSeq(flow_versions,
              LAMBDA r : r.flow_id = flow_id /\ r.version_no = version_no)

\* FlowManager.load_flow_content: None, or the loaded content
load_flow_content(flow_id, version_no) ==
    IF ~HasFlow(flow_id) THEN [found |-> FALSE]
    ELSE LET no == IF version_no = NoVersion THEN flows[flow_id].current_version
                   ELSE version_no
             rows == VersionRows(flow_id, no)
         IN  IF rows = <<>> THEN [found |-> FALSE]
             ELSE IF rows[1].filename \notin DOMAIN files THEN [found |-> FALSE]
             ELSE [found |-> TRUE,
                   version |-> files[rows[1].filename].version,
                   steps |-> LoadSteps(files[rows[1].filename].steps)]

\* the file written by create_flow / update_flow
FlowFile(flow_id, name, version_no, steps) ==
    [id |-> flow_id, name |-> name, version |-> version_no, steps |-> DumpSteps(steps)]

\* FlowManager.create_flow
CreateFlow(name, steps) ==
    LET id == NewId(DOMAIN flows)
    IN  /\ Quiet
        /\ id <= MaxFlows
        /\ Len(flow_versions) < MaxVersionRows
        /\ flows' = (id :> [name |-> name, current_version |-> 1]) @@ flows
        /\ files' = (<<id, 1>> :> FlowFile(id, name, 1, steps)) @@ files
        /\ flow_versions' = Append(flow_versions,
                                   [flow_id |-> id, version_no |-> 1, filename |-> <<id, 1>>])
        /\ last' = Call("create_flow", id, FALSE, TRUE, None, NoArgs, <<>>, steps, 0)
        /\ hist' = [hist EXCEPT !.mods = (id :> 0) @@ @,
                                 !.created = Created(@, id, 1, steps)]
        /\ ex' = ExIdle
        /\ UNCHANGED <<runs, run_steps, reg, connectors, sess, val>>

\* update_flow without the increment of line 118
NewVersionNo_NoIncrement(flow_id) == flows[flow_id].current_version

\* the version number update_flow gives the new version
NewVersionNo(flow_id) == flows[flow_id].current_version + 1

\* FlowManager.update_flow, lines 117-154, of a flow that exists
WriteVersion(flow_id, steps) ==
    LET new_version_no == NewVersionNo(flow_id)
    IN  /\ files' = (<<flow_id, new_version_no>> :>
                        FlowFile(flow_id, flows[flow_id].name, new_version_no, steps)) @@ files
        /\ flow_versions' = Append(flow_versions,
                                   [flow_id |-> flow_id, version_no |-> new_version_no,
                                    filename |-> <<flow_id, new_version_no>>])
        /\ flows' = [flows EXCEPT ![flow_id].current_version = new_version_no]
        /\ hist' = [hist EXCEPT !.mods[flow_id] = @ + 1,
                                 !.created = Created(@, flow_id, new_version_no, steps)]

\* a call that raises before it writes anything
Raise(op, flow_id, error) ==
    /\ last' = Failed(op, flow_id, HasFlow(flow_id), error)
    /\ ex' = ExIdle
    /\ UNCHANGED <<flows, flow_versions, files, runs, run_steps, reg, hist, connectors, sess, val>>

\* FlowManager.update_flow
UpdateFlow(flow_id, steps) ==
    /\ Quiet
    /\ IF ~HasFlow(flow_id)
       THEN Raise("update_flow", flow_id, "Flow not found")
       ELSE /\ Len(flow_versions) < MaxVersionRows
            /\ WriteVersion(flow_id, steps)
            /\ last' = Call("update_flow", flow_id, TRUE, TRUE, None, NoArgs, <<>>, steps, 0)
            /\ ex' = ExIdle
            /\ UNCHANGED <<runs, run_steps, reg, connectors, sess, val>>

\* step.get('id')
StepId(step) == Get(step, "id", None)

\* the loop without its break: the last step with this id
FirstIndex_NoBreak(steps, id) ==
    IF \E i \in 1..Len(steps) : Get(steps[i], "id", None) = id
    THEN CHOOSE i \in 1..Len(steps) :
            /\ Get(steps[i], "id", None) = id
            /\ \A j \in (i + 1)..Len(steps) : Get(steps[j], "id", None) # id
    ELSE 0

\* the loop of lines 193-196 and 212-216: the first index (from 1) of a step
\* with this id, 0 when there is none
FirstIndex(steps, id) ==
    IF \E i \in 1..Len(steps) : StepId(steps[i]) = id
    THEN CHOOSE i \in 1..Len(steps) :
            /\ StepId(steps[i]) = id
            /\ \A j \in 1..(i - 1) : StepId(steps[j]) # id
    ELSE 0

\* list.insert(insert_idx, new_step), insert_idx counted from 0
ListInsert(steps, insert_idx, new_step) ==
    SubSeq(steps, 1, insert_idx) \o <<new_step>> \o SubSeq(steps, insert_idx + 1, Len(steps))

\* the two positions taken for each other
InsertStep_Swapped(steps, anchor_idx, position, new_step) ==
    LET insert_idx == IF position = "after" THEN anchor_idx ELSE anchor_idx + 1
    IN  SubSeq(steps, 1, insert_idx) \o <<new_step>>
            \o SubSeq(steps, insert_idx + 1, Len(steps))

\* lines 201-203; anchor_idx counted from 0
InsertStep(steps, anchor_idx, position, new_step) ==
    LET insert_idx == IF position = "after" THEN anchor_idx + 1 ELSE anchor_idx
    IN  ListInsert(steps, insert_idx, new_step)

\* line 214: steps[i] = new_step, i counted from 0
ReplaceStep(steps, i, new_step) == [steps EXCEPT ![i + 1] = new_step]

\* list.remove of the first step with this id only
DeleteStep_FirstOnly(steps, step_id) ==
    LET hits == {i \in 1..Len(steps) : Get(steps[i], "id", None) = step_id}
    IN  IF hits = {} THEN steps
        ELSE LET i == CHOOSE i \in hits : \A j \in hits : i <= j
             IN  SubSeq(steps, 1, i - 1) \o SubSeq(steps, i + 1, Len(steps))

\* line 228
DeleteStep(steps, step_id) == SelectSeq(steps, LAMBDA step : StepId(step) # step_id)

ModifiedSteps_UnknownIsNoOp(steps, action, anchor_step_id, position, new_step, step_id) ==
    CASE action = "insert_step" ->
            IF anchor_step_id = None \/ position = None \/ new_step = EmptyStep
            THEN [error |-> "Insert requires anchor_step_id, position, and new_step"]
            ELSE IF FirstIndex(steps, anchor_step_id) = 0
            THEN [error |-> "Anchor step not found"]
            ELSE [error |-> None,
                  steps |-> InsertStep(steps, FirstIndex(steps, anchor_step_id) - 1,
                                       position, new_step)]
      [] action = "update_step" ->
            IF step_id = None \/ new_step = EmptyStep
            THEN [error |-> "Update requires step_id and new_step"]
            ELSE IF FirstIndex(steps, step_id) = 0
            THEN [error |-> "Step not found"]
            ELSE [error |-> None,
                  steps |-> ReplaceStep(steps, FirstIndex(steps, step_id) - 1, new_step)]
      [] action = "delete_step" ->
            IF step_id = None
            THEN [error |-> "Delete requires step_id"]
            ELSE [error |-> None, steps |-> DeleteStep(steps, step_id)]
      [] OTHER -> [error |-> None, steps |-> steps]

ModifiedSteps_DeleteNeedsMatch(steps, action, anchor_step_id, position, new_step, step_id) ==
    CASE action = "insert_step" ->
            IF anchor_step_id = None \/ position = None \/ new_step = EmptyStep
            THEN [error |-> "Insert requires anchor_step_id, position, and new_step"]
            ELSE IF FirstIndex(steps, anchor_step_id) = 0
            THEN [error |-> "Anchor step not found"]
            ELSE [error |-> None,
                  steps |-> InsertStep(steps, FirstIndex(steps, anchor_step_id) - 1,
                                       position, new_step)]
      [] action = "update_step" ->
            IF step_id = None \/ new_step = EmptyStep
            THEN [error |-> "Update requires step_id and new_step"]
            ELSE IF FirstIndex(steps, step_id) = 0
            THEN [error |-> "Step not found"]
            ELSE [error |-> None,
                  steps |-> ReplaceStep(steps, FirstIndex(steps, step_id) - 1, new_step)]
      [] action = "delete_step" ->
            IF step_id = None
            THEN [error |-> "Delete requires step_id"]
            ELSE IF FirstIndex(steps, step_id) = 0
            THEN [error |-> "Step not found"]
            ELSE [error |-> None, steps |-> DeleteStep(steps, step_id)]
      [] OTHER -> [error |-> "Unknown action"]

\* FlowManager.modify_flow_steps, lines 187-232: the error raised, or the
\* modified step list
ModifiedSteps(steps, action, anchor_step_id, position, new_step, step_id) ==
    CASE action = "insert_step" ->
            IF anchor_step_id = None \/ position = None \/ new_step = EmptyStep
            THEN [error |-> "Insert requires anchor_step_id, position, and new_step"]
            ELSE IF FirstIndex(steps, anchor_step_id) = 0
            THEN [error |-> "Anchor step not found"]
            ELSE [error |-> None,
                  steps |-> InsertStep(steps, FirstIndex(steps, anchor_step_id) - 1,
                                       position, new_step)]
      [] action = "update_step" ->
            IF step_id = None \/ new_step = EmptyStep
            THEN [error |-> "Update requires step_id and new_step"]
            ELSE IF FirstIndex(steps, step_id) = 0
            THEN [error |-> "Step not found"]
            ELSE [error |-> None,
                  steps |-> ReplaceStep(steps, FirstIndex(steps, step_id) - 1, new_step)]
      [] action = "delete_step" ->
            IF step_id = None
            THEN [error |-> "Delete requires step_id"]
            ELSE [error |-> None, steps |-> DeleteStep(steps, step_id)]
      [] OTHER -> [error |-> "Unknown action"]

\* FlowManager.modify_flow_steps
ModifyFlowSteps(flow_id, action, anchor_step_id, position, new_step, step_id) ==
    LET flow_content == load_flow_content(flow_id, NoVersion)
    IN  /\ Quiet
        /\ IF ~flow_content.found
           THEN Raise("modify_flow_steps", flow_id, "Flow not found")
           ELSE LET m == ModifiedSteps(flow_content.steps, action, anchor_step_id,
                                       position, new_step, step_id)
                IN  IF m.error # None
                    THEN Raise("modify_flow_steps", flow_id, m.error)
                    ELSE /\ Len(flow_versions) < MaxVersionRows
                         /\ WriteVersion(flow_id, m.steps)
                         /\ last' = Call("modify_flow_steps", flow_id, TRUE, TRUE, None,
                                         [action |-> action,
                                          anchor_step_id |-> anchor_step_id,
                                          position |-> position,
                                          new_step |-> new_step,
                                          step_id |-> step_id],
                                         flow_content.steps, m.steps, 0)
                         /\ ex' = ExIdle
                         /\ UNCHANGED <<runs, run_steps, reg, connectors, sess, val>>

\* ids of the runs of a flow
RunsOf(flow_id) == {r \in DOMAIN runs : runs[r].flow_id = flow_id}

\* FlowManager.delete_flow: shutil.rmtree of the flow's directory, then the
\* ORM delete of the Flow, which cascades to its versions, its runs and their
\* run steps (database.py 20-21, 46)
DeleteFlow(flow_id) ==
    /\ Quiet
    /\ IF ~HasFlow(flow_id)
       THEN /\ last' = Call("delete_flow", flow_id, FALSE, TRUE, None, NoArgs, <<>>, <<>>, 0)
            /\ ex' = ExIdle
            /\ UNCHANGED <<flows, flow_versions, files, runs, run_steps, reg, hist, connectors, sess, val>>
       ELSE /\ files' = [path \in {q \in DOMAIN files : q[1] # flow_id} |-> files[path]]
            /\ flows' = Without(flows, flow_id)
            /\ flow_versions' = SelectSeq(flow_versions, LAMBDA r : r.flow_id # flow_id)
            /\ run_steps' = SelectSeq(run_steps, LAMBDA r : r.run_id \notin RunsOf(flow_id))
            /\ runs' = [r \in DOMAIN runs \ RunsOf(flow_id) |-> runs[r]]
            /\ last' = Call("delete_flow", flow_id, TRUE, TRUE, None, NoArgs, <<>>, <<>>, 0)
            /\ hist' = [hist EXCEPT
                    !.mods = Without(@, flow_id),
                    !.created = [key \in {q \in DOMAIN @ : q[1] # flow_id} |-> @[key]]]
            /\ ex' = ExIdle
            /\ UNCHANGED <<reg, connectors, sess, val>>

(***************************************************************************)
(* FlowManager.validate_flow (flow_manager.py 255-284).  A flow definition *)
(* is the record of its top-level keys id, name and steps; has_steps tells *)
(* whether the key steps is there.  A step is the record of its keys id,   *)
(* name and type.  An error message is the tuple of its parts.             *)
(***************************************************************************)
\* f"{i}"
IndexText(i) == <<"0", "1", "2", "3", "4", "5", "6", "7", "8", "9">>[i + 1]

\* lines 272-282: the errors of the step at index i, step_ids being the ids
\* of the steps before it
StepErrors(step, i, step_ids) ==
    (IF step.id = Absent
     THEN << <<"Step ", IndexText(i), " missing ID">> >>
     ELSE IF step.id \in step_ids
          THEN << <<"Duplicate step ID: ", step.id>> >>
          ELSE <<>>)
    \o (IF step.name = Absent THEN << <<"Step ", IndexText(i), " missing name">> >> ELSE <<>>)
    \o (IF step.type = Absent THEN << <<"Step ", IndexText(i), " missing type">> >> ELSE <<>>)

\* the loop ends at the first step that has an error
RECURSIVE ValidateSteps_StopsAtFirst(_, _, _)
ValidateSteps_StopsAtFirst(steps, i, step_ids) ==
    IF i >= Len(steps) THEN <<>>
    ELSE LET step == steps[i + 1]
         IN  IF StepErrors(step, i, step_ids) # <<>>
             THEN StepErrors(step, i, step_ids)
             ELSE ValidateSteps_StopsAtFirst(steps, i + 1, step_ids \cup {step.id})

\* lines 268-282: the loop over enumerate(steps) from index i on
RECURSIVE ValidateSteps(_, _, _)
ValidateSteps(steps, i, step_ids) ==
    IF i >= Len(steps) THEN <<>>
    ELSE LET step == steps[i + 1]
         IN  StepErrors(step, i, step_ids)
             \o ValidateSteps(steps, i + 1,
                              IF step.id = Absent THEN step_ids
                              ELSE step_ids \cup {step.id})

\* FlowManager.validate_flow: the pair (len(errors) == 0, errors)
validate_flow(flow_content) ==
    LET errors ==
            (IF flow_content.id = Absent THEN << <<"Missing flow ID">> >> ELSE <<>>)
            \o (IF flow_content.name = Absent THEN << <<"Missing flow name">> >> ELSE <<>>)
            \o (IF ~flow_content.has_steps THEN << <<"Missing steps">> >> ELSE <<>>)
            \o ValidateSteps(flow_content.steps, 0, {})
    IN  [ok |-> Len(errors) = 0, errors |-> errors]

\* no validate_flow call was made
NotValidated == [called |-> FALSE, ok |-> FALSE, errors |-> <<>>]

\* a call of validate_flow on the definition held in val
ValidateFlow ==
    /\ ~val.result.called
    /\ val' = [val EXCEPT !.result = [called |-> TRUE,
                                       ok |-> validate_flow(val.flow_content).ok,
                                       errors |-> validate_flow(val.flow_content).errors]]
    /\ UNCHANGED <<flows, flow_versions, files, runs, run_steps, ex, reg, last, hist,
                   connectors, sess>>

(***************************************************************************)
(* Executor (executor.py).  result_json is <<>> for NULL and <<result>>    *)
(* for json.dumps(result).                                                 *)
(***************************************************************************)
\* the steps of the executor specification: under each id a supported action,
\* an unsupported one under the default policy and an unsupported one under
\* onError = continue; and a step without an id (it is never dispatched)
ExecSteps ==
    {MkStep(id, "step", "sql", k[1], k[2]) :
        id \in StepIds,
        k \in {<<"query", Absent>>, <<"bogus", Absent>>, <<"bogus", "continue">>}}
    \cup {MkStep(Absent, "step", "sql", "query", Absent)}

\* the step of the flow Echo: it reads file1.txt through the connector local_file
EchoStep == MkStep("s1", "Read", "local_file", "read_file", Absent)

\* step.get('params', {}) of a step without params
NoParams == <<>>

\* indices of the RunStep rows of a run, in rowid order
RunStepRows(run_id) ==
    SelectSeq([k \in 1..Len(run_steps) |-> k], LAMBDA k : run_steps[k].run_id = run_id)

\* the query without its filter on run_id
FindRunStep_AnyRun(run_id, step_id) ==
    LET hits == SelectSeq([k \in 1..Len(run_steps) |-> k],
                          LAMBDA k : step_id # None /\ run_steps[k].step_id = step_id)
    IN  IF hits = <<>> THEN 0 ELSE hits[1]

\* lines 93-96: the index of the first row with this run_id and step_id, 0
\* when there is none.  step_id = None compares as IS NULL, which no row
\* satisfies: the column is not nullable.
FindRunStep(run_id, step_id) ==
    LET hits == SelectSeq(RunStepRows(run_id),
                          LAMBDA k : step_id # None /\ run_steps[k].step_id = step_id)
    IN  IF hits = <<>> THEN 0 ELSE hits[1]

\* Executor.execute_flow, lines 20-44: load the content, commit the Run
ExecuteFlow(flow_id, version_no) ==
    LET flow_content == load_flow_content(flow_id, version_no)
        run_id == NewId(DOMAIN runs)
    IN  /\ Quiet
        /\ IF ~flow_content.found
           THEN Raise("execute_flow", flow_id, "Flow not found")
           ELSE LET no == IF version_no = NoVersion THEN flows[flow_id].current_version
                          ELSE version_no
                IN  /\ run_id <= MaxRuns
                    /\ runs' = (run_id :> [flow_id |-> flow_id, version_no |-> no,
                                           status |-> "running", finished_at |-> None])
                               @@ runs
                    /\ ex' = [pc |-> "run_created", flow_id |-> flow_id, run_id |-> run_id,
                              requested |-> version_no, version_no |-> no,
                              steps |-> flow_content.steps, i |-> 1, row |-> 0,
                              calls |-> [k \in 1..Len(flow_content.steps) |-> 0],
                              raised |-> FALSE, log |-> <<>>, exc |-> <<>>]
                    /\ last' = Call("execute_flow", flow_id, TRUE, TRUE, None, NoArgs, <<>>,
                                    flow_content.steps, run_id)
                    /\ UNCHANGED <<flows, flow_versions, files, run_steps, reg, hist, connectors, sess, val>>

\* lines 51-59: a step whose id or name is null gives a RunStep whose step_id or
\* name is NULL; both columns are NOT NULL (database.py 53-54)
NullColumn(steps) ==
    \E k \in 1..Len(steps) :
        Get(steps[k], "id", "") = None \/ Get(steps[k], "name", "") = None

CreateRunSteps_FirstOnly ==
    /\ ex.pc = "run_created"
    /\ ~NullColumn(ex.steps)
    /\ run_steps' = run_steps \o
            [k \in 1..(IF Len(ex.steps) > 1 THEN 1 ELSE Len(ex.steps)) |->
                [run_id |-> ex.run_id,
                 step_id |-> Get(ex.steps[k], "id", ""),
                 name |-> Get(ex.steps[k], "name", ""),
                 status |-> "pending", result_json |-> <<>>,
                 started_at |-> None, finished_at |-> None]]
    /\ ex' = [ex EXCEPT !.pc = "loop"]
    /\ UNCHANGED <<flows, flow_versions, files, runs, reg, last, hist, connectors, sess, val>>

\* lines 48-59: commit one pending RunStep per step
CreateRunSteps ==
    /\ ex.pc = "run_created"
    /\ ~NullColumn(ex.steps)
    /\ run_steps' = run_steps \o
            [k \in 1..Len(ex.steps) |->
                [run_id |-> ex.run_id,
                 step_id |-> Get(ex.steps[k], "id", ""),
                 name |-> Get(ex.steps[k], "name", ""),
                 status |-> "pending", result_json |-> <<>>,
                 started_at |-> None, finished_at |-> None]]
    /\ ex' = [ex EXCEPT !.pc = "loop"]
    /\ UNCHANGED <<flows, flow_versions, files, runs, reg, last, hist, connectors, sess, val>>

\* lines 48-59 with a null id or name: the commit of line 59 raises
\* IntegrityError and no RunStep is stored; line 59 is outside the try of line
\* 62, so execute_flow raises with the Run left as line 43 committed it
CreateRunStepsRaise ==
    /\ ex.pc = "run_created"
    /\ NullColumn(ex.steps)
    /\ ex' = [ex EXCEPT !.pc = "done", !.raised = TRUE, !.exc = <<"IntegrityError">>]
    /\ last' = [last EXCEPT !.ok = FALSE, !.error = "IntegrityError"]
    /\ UNCHANGED <<flows, flow_versions, files, runs, run_steps, reg, hist, connectors, sess, val>>

\* _execute_step, lines 86-100: no RunStep row is found, the step is skipped
StepSkip ==
    /\ ex.pc = "loop"
    /\ ex.i <= Len(ex.steps)
    /\ FindRunStep(ex.run_id, StepId(ex.steps[ex.i])) = 0
    /\ ex' = [ex EXCEPT !.i = @ + 1, !.log = Append(@, <<"skip", ex.i>>)]
    /\ UNCHANGED <<flows, flow_versions, files, runs, run_steps, reg, last, hist, connectors, sess, val>>

\* _execute_step, lines 86-105: the RunStep row found is committed as running
StepBegin ==
    LET row == FindRunStep(ex.run_id, StepId(ex.steps[ex.i]))
    IN  /\ ex.pc = "loop"
        /\ ex.i <= Len(ex.steps)
        /\ row # 0
        /\ run_steps' = [run_steps EXCEPT ![row].status = "running",
                                          ![row].started_at = "now"]
        /\ ex' = [ex EXCEPT !.pc = "dispatch", !.row = row,
                            !.log = Append(@, <<"begin", ex.i>>)]
        /\ UNCHANGED <<flows, flow_versions, files, runs, reg, last, hist, connectors, sess, val>>

\* a failed step with retry enabled is dispatched a second time
Dispatch_Retries(step) ==
    IF Truthy(step.connector) /\ Truthy(step.action)
    THEN IF step.connector = ListOfNames
         THEN [raised |-> TRUE, exc |-> <<"unhashable type: 'list'">>, calls |-> 1]
         ELSE LET result == run_connector(step.connector, step.action, NoParams).result
              IN  [raised |-> FALSE, result |-> result,
                   calls |-> IF result.status = "error" /\ step.retry = RetryEnabled
                             THEN 2 ELSE 1]
    ELSE [raised |-> FALSE,
          result |-> [status |-> "success", message |-> <<"No action specified">>],
          calls |-> 0]

\* run_connector with the failed lookup caught and returned as an error result
Dispatch_CatchesLookup(step) ==
    IF Truthy(step.connector) /\ Truthy(step.action)
    THEN IF step.connector = ListOfNames
         THEN [raised |-> FALSE,
               result |-> [status |-> "error", message |-> <<"unhashable type: 'list'">>],
               calls |-> 1]
         ELSE [raised |-> FALSE,
               result |-> run_connector(step.connector, step.action, NoParams).result,
               calls |-> 1]
    ELSE [raised |-> FALSE,
          result |-> [status |-> "success", message |-> <<"No action specified">>],
          calls |-> 0]

\* lines 111-114: the result of the step and the registry calls it makes.
\* get_connector (connector_manager.py 181, 198) looks the name up in a dict: a
\* name that is a list raises TypeError before any adapter is asked.
Dispatch(step) ==
    IF Truthy(step.connector) /\ Truthy(step.action)
    THEN IF step.connector = ListOfNames
         THEN [raised |-> TRUE, exc |-> <<"unhashable type: 'list'">>, calls |-> 1]
         ELSE [raised |-> FALSE,
               result |-> run_connector(step.connector, step.action, NoParams).result,
               calls |-> 1]
    ELSE [raised |-> FALSE,
          result |-> [status |-> "success", message |-> <<"No action specified">>],
          calls |-> 0]

StopsOnError_UnlessContinue(step) == Get(step, "onError", "stop") # "continue"

\* line 132-133: the step's failure aborts the run
StopsOnError(step) == Get(step, "onError", "stop") = "stop"

\* _execute_step, lines 109-144: dispatch, commit the RunStep as failed or as
\* completed; under the stop policy the exception is raised inside the try.  A
\* dispatch that raises commits nothing here.  The retry configuration of a
\* failed step is read and logged (lines 119-123), nothing more.
StepDispatch ==
    LET step == ex.steps[ex.i]
        d == Dispatch(step)
        failed == ~d.raised /\ d.result.status = "error"
        called == IF d.calls > 0 THEN << <<"dispatch", ex.i>> >> ELSE <<>>
    IN  /\ ex.pc = "dispatch"
        /\ run_steps' = IF d.raised THEN run_steps
                         ELSE [run_steps EXCEPT
                                ![ex.row].status = IF failed THEN "failed" ELSE "completed",
                                ![ex.row].result_json = <<d.result>>,
                                ![ex.row].finished_at = "now"]
        /\ ex' = IF d.raised
                 THEN [ex EXCEPT !.pc = "step_except", !.calls[ex.i] = @ + d.calls,
                                 !.log = @ \o called, !.exc = d.exc]
                 ELSE IF failed /\ StopsOnError(step)
                 THEN [ex EXCEPT !.pc = "step_except", !.calls[ex.i] = @ + d.calls,
                                 !.log = @ \o called \o << <<"end", ex.i>> >>,
                                 !.exc = <<"Step ", StepId(step), " failed: ",
                                           d.result.message>>]
                 ELSE [ex EXCEPT !.pc = "loop", !.i = @ + 1, !.calls[ex.i] = @ + d.calls,
                                 !.log = @ \o called \o << <<"end", ex.i>> >>]
        /\ UNCHANGED <<flows, flow_versions, files, runs, reg, last, hist, connectors, sess, val>>

\* _execute_step, lines 146-153: the handler commits the RunStep as failed with
\* the message of the exception and raises it again
StepExcept ==
    /\ ex.pc = "step_except"
    /\ run_steps' = [run_steps EXCEPT
            ![ex.row].status = "failed",
            ![ex.row].result_json = << [status |-> "error", message |-> ex.exc] >>,
            ![ex.row].finished_at = "now"]
    /\ ex' = [ex EXCEPT !.pc = "run_except",
                        !.log = Append(@, <<"except", ex.i>>)]
    /\ UNCHANGED <<flows, flow_versions, files, runs, reg, last, hist, connectors, sess, val>>

\* execute_flow, lines 66-69 and 82: every step returned, the Run is committed
\* as completed and returned
RunComplete ==
    /\ ex.pc = "loop"
    /\ ex.i > Len(ex.steps)
    /\ runs' = [runs EXCEPT ![ex.run_id].status = "completed",
                            ![ex.run_id].finished_at = "now"]
    /\ ex' = [ex EXCEPT !.pc = "done"]
    /\ UNCHANGED <<flows, flow_versions, files, run_steps, reg, last, hist, connectors, sess, val>>

\* execute_flow, lines 73-80: a step raised, the Run is committed as failed and
\* the exception raised again
RunFail ==
    /\ ex.pc = "run_except"
    /\ runs' = [runs EXCEPT ![ex.run_id].status = "failed",
                            ![ex.run_id].finished_at = "now"]
    /\ ex' = [ex EXCEPT !.pc = "done", !.raised = TRUE]
    /\ last' = [last EXCEPT !.ok = FALSE, !.error = "Step failed"]
    /\ UNCHANGED <<flows, flow_versions, files, run_steps, reg, hist, connectors, sess, val>>

(***************************************************************************)
(* A direct call of the registry.                                          *)
(***************************************************************************)
NoRegCall == [connector_name |-> None, action |-> None, params |-> NoParams,
              result |-> [status |-> None], adapter_calls |-> <<>>]

RegConnectors == SeqToSet(ConnectorNames) \cup {"local_file"}

RegActions ==
    UNION {SeqToSet(Capabilities(c)) : c \in SeqToSet(ConnectorNames)} \cup {"bogus"}

RegParams == {NoParams, [query |-> "SELECT 1", table |-> "t", filename |-> "file1.txt"]}

\* ConnectorManager.run_connector(connector_name, action, params)
RunConnectorCall(connector_name, action, params) ==
    LET r == run_connector(connector_name, action, params)
    IN  /\ reg' = [connector_name |-> connector_name, action |-> action,
                   params |-> params, result |-> r.result,
                   adapter_calls |-> r.adapter_calls]
        /\ UNCHANGED <<flows, flow_versions, files, runs, run_steps, ex, last, hist, connectors, sess, val>>

(***************************************************************************)
(* Database sessions.  Each request, and each process that opens the       *)
(* database file, works in a session of its own (main.py 100-105,          *)
(* database.py 111-117).  A session reads committed rows with every query  *)
(* and writes at commit.                                                   *)
(***************************************************************************)
Sessions == {1, 2}

\* the session is in no call
SessIdle == [pc |-> "idle"]

(***************************************************************************)
(* ConnectorManager.__init__ and _init_db_connectors in a session: one     *)
(* query per built-in connector, then one commit of the rows added.        *)
(***************************************************************************)
\* connector.__class__.__name__
ConnectorType(name) ==
    CASE name = "sql" -> "SQLConnector"
      [] name = "sharepoint" -> "SharePointConnector"
      [] name = "email" -> "EmailConnector"
      [] name = "notification" -> "NotificationConnector"

\* lines 167-172: the row added for a built-in connector
ConnectorRow(name) ==
    [name |-> name, type |-> ConnectorType(name), capabilities_json |-> Capabilities(name)]

\* lines 163-165: a row of this name is stored
Registered(name) == \E k \in 1..Len(connectors) : connectors[k].name = name

\* ConnectorManager(db): the constructor starts the loop of line 162
InitBegin(p) ==
    /\ sess[p].pc = "idle"
    /\ sess' = [sess EXCEPT ![p] = [pc |-> "init", todo |-> ConnectorNames, added |-> <<>>]]
    /\ UNCHANGED <<flows, flow_versions, files, runs, run_steps, ex, reg, last, hist,
                   connectors, val>>

\* lines 162-174: the query for the next name, and the add when no row has it
InitQuery(p) ==
    /\ sess[p].pc = "init"
    /\ sess[p].todo # <<>>
    /\ LET name == Head(sess[p].todo)
       IN  sess' = [sess EXCEPT
                ![p].todo = Tail(@),
                ![p].added = IF Registered(name) THEN @ ELSE Append(@, ConnectorRow(name))]
    /\ UNCHANGED <<flows, flow_versions, files, runs, run_steps, ex, reg, last, hist,
                   connectors, val>>

\* line 176: the commit inserts the rows added; the column name is unique
\* (database.py 66), so the commit raises IntegrityError and inserts nothing
\* when a row of one of the names has been stored since the query
InitCommit(p) ==
    /\ sess[p].pc = "init"
    /\ sess[p].todo = <<>>
    /\ IF \E k \in 1..Len(sess[p].added) : Registered(sess[p].added[k].name)
       THEN /\ sess' = [sess EXCEPT ![p] = [pc |-> "init_failed"]]
            /\ UNCHANGED connectors
       ELSE /\ connectors' = connectors \o sess[p].added
            /\ sess' = [sess EXCEPT ![p] = [pc |-> "init_done"]]
    /\ UNCHANGED <<flows, flow_versions, files, runs, run_steps, ex, reg, last, hist, val>>

(***************************************************************************)
(* FlowManager and Executor calls commit by commit, for sessions that work *)
(* on the database at the same time.  A query reads the rows committed so  *)
(* far: the Flow object of an earlier query of the call is not kept (the   *)
(* identity map of the session holds it weakly and load_flow_content       *)
(* drops it on return), so get_flow reads the row again.                   *)
(***************************************************************************)
\* sessions between their first read and the commit of a FlowVersion
Writers ==
    Cardinality({p \in Sessions :
        sess[p].pc \in {"flow_committed", "modify_loaded", "update_read", "file_written"}})

RoomForVersion == Len(flow_versions) + Writers < MaxVersionRows

\* create_flow, lines 24-31: the Flow row is committed
CreateFlowCommitFlow(p, name, steps) ==
    LET id == NewId(DOMAIN flows)
    IN  /\ sess[p].pc = "idle"
        /\ RoomForVersion
        /\ id <= MaxFlows
        /\ flows' = (id :> [name |-> name, current_version |-> 1]) @@ flows
        /\ hist' = [hist EXCEPT !.mods = (id :> 0) @@ @]
        /\ sess' = [sess EXCEPT ![p] = [pc |-> "flow_committed", flow_id |-> id,
                                        name |-> name, steps |-> steps]]
        /\ UNCHANGED <<flow_versions, files, runs, run_steps, ex, reg, last, connectors, val>>

\* create_flow, lines 33-62: the file v1.yaml is written and the FlowVersion
\* row committed
CreateFlowCommitVersion(p) ==
    LET id == sess[p].flow_id
    IN  /\ sess[p].pc = "flow_committed"
        /\ files' = (<<id, 1>> :> FlowFile(id, sess[p].name, 1, sess[p].steps)) @@ files
        /\ flow_versions' = Append(flow_versions,
                                   [flow_id |-> id, version_no |-> 1, filename |-> <<id, 1>>])
        /\ hist' = [hist EXCEPT !.created = Created(@, id, 1, sess[p].steps)]
        /\ sess' = [sess EXCEPT ![p] = SessIdle]
        /\ UNCHANGED <<flows, runs, run_steps, ex, reg, last, connectors, val>>

\* create_flow, lines 33-51: mkdir, open or yaml.dump raises (OSError); the
\* call has no handler and the Flow row committed at line 30 stays
CreateFlowWriteFails(p) ==
    /\ sess[p].pc = "flow_committed"
    /\ sess' = [sess EXCEPT ![p] = SessIdle]
    /\ UNCHANGED <<flows, flow_versions, files, runs, run_steps, ex, reg, last, hist,
                   connectors, val>>

\* update_flow, lines 113-118: get_flow and new_version_no
UpdateFlowRead(p, flow_id, steps) ==
    /\ sess[p].pc = "idle"
    /\ RoomForVersion
    /\ HasFlow(flow_id)
    /\ sess' = [sess EXCEPT ![p] = [pc |-> "update_read", flow_id |-> flow_id,
                                    name |-> flows[flow_id].name,
                                    new_version_no |-> NewVersionNo(flow_id),
                                    steps |-> steps]]
    /\ UNCHANGED <<flows, flow_versions, files, runs, run_steps, ex, reg, last, hist,
                   connectors, val>>

\* modify_flow_steps, lines 179-232: the current content is loaded and the
\* step list modified (delete_step)
ModifyFlowStepsLoad(p, flow_id, step_id) ==
    LET flow_content == load_flow_content(flow_id, NoVersion)
    IN  /\ sess[p].pc = "idle"
        /\ RoomForVersion
        /\ flow_content.found
        /\ sess' = [sess EXCEPT ![p] = [pc |-> "modify_loaded", flow_id |-> flow_id,
                                        steps |-> DeleteStep(flow_content.steps, step_id)]]
        /\ UNCHANGED <<flows, flow_versions, files, runs, run_steps, ex, reg, last, hist,
                       connectors, val>>

\* modify_flow_steps, line 235: update_flow, lines 113-118, reads the Flow row
ModifyFlowStepsRead(p) ==
    LET flow_id == sess[p].flow_id
    IN  /\ sess[p].pc = "modify_loaded"
        /\ HasFlow(flow_id)
        /\ sess' = [sess EXCEPT ![p] = [pc |-> "update_read", flow_id |-> flow_id,
                                        name |-> flows[flow_id].name,
                                        new_version_no |-> NewVersionNo(flow_id),
                                        steps |-> sess[p].steps]]
        /\ UNCHANGED <<flows, flow_versions, files, runs, run_steps, ex, reg, last, hist,
                       connectors, val>>

\* update_flow, lines 130-139: the file v<new_version_no>.yaml is written,
\* over a file of that name when there is one
UpdateFlowWriteFile(p) ==
    LET path == <<sess[p].flow_id, sess[p].new_version_no>>
    IN  /\ sess[p].pc = "update_read"
        /\ files' = (path :> FlowFile(sess[p].flow_id, sess[p].name,
                                      sess[p].new_version_no, sess[p].steps)) @@ files
        /\ sess' = [sess EXCEPT ![p].pc = "file_written"]
        /\ UNCHANGED <<flows, flow_versions, runs, run_steps, ex, reg, last, hist,
                       connectors, val>>

\* update_flow, lines 141-154: the FlowVersion row and current_version are
\* committed together; no constraint keeps (flow_id, version_no) unique
\* (database.py 23-33)
UpdateFlowCommit(p) ==
    LET flow_id == sess[p].flow_id
        new_version_no == sess[p].new_version_no
    IN  /\ sess[p].pc = "file_written"
        /\ flow_versions' = Append(flow_versions,
                                   [flow_id |-> flow_id, version_no |-> new_version_no,
                                    filename |-> <<flow_id, new_version_no>>])
        /\ flows' = [flows EXCEPT ![flow_id].current_version = new_version_no]
        /\ hist' = [hist EXCEPT
                !.mods[flow_id] = @ + 1,
                !.created = Created(@, flow_id, new_version_no, sess[p].steps)]
        /\ sess' = [sess EXCEPT ![p] = SessIdle]
        /\ UNCHANGED <<files, runs, run_steps, ex, reg, last, connectors, val>>

\* execute_flow, lines 23-25: the content is loaded
ExecuteFlowLoad(flow_id, version_no) ==
    LET flow_content == load_flow_content(flow_id, version_no)
    IN  /\ Quiet
        /\ NewId(DOMAIN runs) <= MaxRuns
        /\ flow_content.found
        /\ ex' = [ExIdle EXCEPT !.pc = "loaded", !.flow_id = flow_id,
                                !.requested = version_no, !.steps = flow_content.steps]
        /\ UNCHANGED <<flows, flow_versions, files, runs, run_steps, reg, last, hist,
                       connectors, sess, val>>

\* execute_flow, lines 27-44: get_flow reads the Flow row, version_no is set
\* from its current_version when none was given, and the Run is committed
ExecuteFlowResolve ==
    LET run_id == NewId(DOMAIN runs)
        no == IF ex.requested = NoVersion THEN flows[ex.flow_id].current_version
              ELSE ex.requested
    IN  /\ ex.pc = "loaded"
        /\ HasFlow(ex.flow_id)
        /\ runs' = (run_id :> [flow_id |-> ex.flow_id, version_no |-> no,
                               status |-> "running", finished_at |-> None]) @@ runs
        /\ ex' = [ex EXCEPT !.pc = "run_created", !.run_id = run_id, !.version_no = no,
                            !.i = 1, !.calls = [k \in 1..Len(ex.steps) |-> 0]]
        /\ UNCHANGED <<flows, flow_versions, files, run_steps, reg, last, hist,
                       connectors, sess, val>>

\* the request ends and its session is closed (main.py 100-105)
SessClose(p) ==
    /\ sess[p].pc \in {"init_done", "init_failed"}
    /\ sess' = [sess EXCEPT ![p] = SessIdle]
    /\ UNCHANGED <<flows, flow_versions, files, runs, run_steps, ex, reg, last, hist,
                   connectors, val>>

(***************************************************************************)
(* execute_flow in a session (executor.py 20-153): the calls of two        *)
(* processes on one database, commit by commit.  A RunStep object is       *)
(* written back by its primary key, here its position in run_steps.        *)
(***************************************************************************)
\* lines 20-44: the content is loaded and the Run committed
ExecuteFlowIn(p, flow_id) ==
    LET flow_content == load_flow_content(flow_id, NoVersion)
        run_id == NewId(DOMAIN runs)
    IN  /\ sess[p].pc = "idle"
        /\ flow_content.found
        /\ run_id <= MaxRuns
        /\ runs' = (run_id :> [flow_id |-> flow_id,
                               version_no |-> flows[flow_id].current_version,
                               status |-> "running", finished_at |-> None]) @@ runs
        /\ sess' = [sess EXCEPT ![p] = [pc |-> "run_created", run_id |-> run_id,
                                        steps |-> flow_content.steps, i |-> 1, row |-> 0,
                                        exc |-> <<>>]]
        /\ UNCHANGED <<flows, flow_versions, files, run_steps, ex, reg, last, hist,
                       connectors, val>>

\* lines 48-59
CreateRunStepsIn(p) ==
    /\ sess[p].pc = "run_created"
    /\ ~NullColumn(sess[p].steps)
    /\ run_steps' = run_steps \o
            [k \in 1..Len(sess[p].steps) |->
                [run_id |-> sess[p].run_id,
                 step_id |-> Get(sess[p].steps[k], "id", ""),
                 name |-> Get(sess[p].steps[k], "name", ""),
                 status |-> "pending", result_json |-> <<>>,
                 started_at |-> None, finished_at |-> None]]
    /\ sess' = [sess EXCEPT ![p].pc = "loop"]
    /\ UNCHANGED <<flows, flow_versions, files, runs, ex, reg, last, hist,
                   connectors, val>>

\* _execute_step, lines 86-100
StepSkipIn(p) ==
    /\ sess[p].pc = "loop"
    /\ sess[p].i <= Len(sess[p].steps)
    /\ FindRunStep(sess[p].run_id, StepId(sess[p].steps[sess[p].i])) = 0
    /\ sess' = [sess EXCEPT ![p].i = @ + 1]
    /\ UNCHANGED <<flows, flow_versions, files, runs, run_steps, ex, reg, last, hist,
                   connectors, val>>

\* _execute_step, lines 86-105
StepBeginIn(p) ==
    /\ sess[p].pc = "loop"
    /\ sess[p].i <= Len(sess[p].steps)
    /\ LET row == FindRunStep(sess[p].run_id, StepId(sess[p].steps[sess[p].i]))
       IN  /\ row # 0
           /\ run_steps' = [run_steps EXCEPT ![row].status = "running",
                                             ![row].started_at = "now"]
           /\ sess' = [sess EXCEPT ![p].pc = "dispatch", ![p].row = row]
    /\ UNCHANGED <<flows, flow_versions, files, runs, ex, reg, last, hist,
                   connectors, val>>

\* _execute_step, lines 109-144
StepDispatchIn(p) ==
    /\ sess[p].pc = "dispatch"
    /\ LET step == sess[p].steps[sess[p].i]
           d == Dispatch(step)
           failed == ~d.raised /\ d.result.status = "error"
       IN  /\ run_steps' = IF d.raised THEN run_steps
                            ELSE [run_steps EXCEPT
                                    ![sess[p].row].status =
                                        IF failed THEN "failed" ELSE "completed",
                                    ![sess[p].row].result_json = <<d.result>>,
                                    ![sess[p].row].finished_at = "now"]
           /\ sess' = IF d.raised
                       THEN [sess EXCEPT ![p].pc = "step_except", ![p].exc = d.exc]
                       ELSE IF failed /\ StopsOnError(step)
                       THEN [sess EXCEPT ![p].pc = "step_except",
                                         ![p].exc = <<"Step ", StepId(step), " failed: ",
                                                      d.result.message>>]
                       ELSE [sess EXCEPT ![p].pc = "loop", ![p].i = @ + 1]
    /\ UNCHANGED <<flows, flow_versions, files, runs, ex, reg, last, hist,
                   connectors, val>>

\* _execute_step, lines 146-153
StepExceptIn(p) ==
    /\ sess[p].pc = "step_except"
    /\ run_steps' = [run_steps EXCEPT
            ![sess[p].row].status = "failed",
            ![sess[p].row].result_json = << [status |-> "error", message |-> sess[p].exc] >>,
            ![sess[p].row].finished_at = "now"]
    /\ sess' = [sess EXCEPT ![p].pc = "run_except"]
    /\ UNCHANGED <<flows, flow_versions, files, runs, ex, reg, last, hist,
                   connectors, val>>

\* execute_flow, lines 66-69 and 82
RunCompleteIn(p) ==
    /\ sess[p].pc = "loop"
    /\ sess[p].i > Len(sess[p].steps)
    /\ runs' = [runs EXCEPT ![sess[p].run_id].status = "completed",
                            ![sess[p].run_id].finished_at = "now"]
    /\ sess' = [sess EXCEPT ![p].pc = "returned"]
    /\ UNCHANGED <<flows, flow_versions, files, run_steps, ex, reg, last, hist,
                   connectors, val>>

\* execute_flow, lines 73-80
RunFailIn(p) ==
    /\ sess[p].pc = "run_except"
    /\ runs' = [runs EXCEPT ![sess[p].run_id].status = "failed",
                            ![sess[p].run_id].finished_at = "now"]
    /\ sess' = [sess EXCEPT ![p].pc = "raised"]
    /\ UNCHANGED <<flows, flow_versions, files, run_steps, ex, reg, last, hist,
                   connectors, val>>

(***************************************************************************)
(* Specifications.                                                         *)
(***************************************************************************)
Init ==
    /\ flows = <<>>
    /\ flow_versions = <<>>
    /\ files = <<>>
    /\ runs = <<>>
    /\ run_steps = <<>>
    /\ ex = ExIdle
    /\ reg = NoRegCall
    /\ last = Call("none", 0, FALSE, TRUE, None, NoArgs, <<>>, <<>>, 0)
    /\ hist = [mods |-> <<>>, created |-> <<>>]
    /\ connectors = <<>>
    /\ sess = [p \in Sessions |-> SessIdle]
    /\ val = [flow_content |-> [id |-> Absent, name |-> Absent, has_steps |-> FALSE,
                                steps |-> <<>>],
              result |-> NotValidated]

FlowIds == 1..MaxFlows
StoreLists == SeqsUpTo(StoreSteps, MaxLen)

\* The flow store: the handlers of FlowManager, one call at a time, with
\* well-formed arguments.
Next ==
    \/ \E name \in FlowNames, steps \in StoreLists : CreateFlow(name, steps)
    \/ \E f \in DOMAIN flows, steps \in StoreLists : UpdateFlow(f, steps)
    \/ \E f \in DOMAIN flows, anchor \in StepIds, position \in {"before", "after"},
          new_step \in StoreSteps :
            ModifyFlowSteps(f, "insert_step", anchor, position, new_step, None)
    \/ \E f \in DOMAIN flows, step_id \in StepIds, new_step \in StoreSteps :
            ModifyFlowSteps(f, "update_step", None, None, new_step, step_id)
    \/ \E f \in DOMAIN flows, step_id \in StepIds :
            ModifyFlowSteps(f, "delete_step", None, None, EmptyStep, step_id)
    \/ \E f \in FlowIds : DeleteFlow(f)

Spec == Init /\ [][Next]_vars

\* The registry: direct calls of run_connector.
NextRegistry ==
    \E c \in RegConnectors, a \in RegActions, p \in RegParams : RunConnectorCall(c, a, p)

SpecRegistry == Init /\ [][NextRegistry]_vars

\* The executor: one flow at a time is created, executed commit by commit,
\* and deleted.
ExecLists == SeqsUpTo(ExecSteps, MaxExecLen) \cup {<<EchoStep>>}

NextExec ==
    \/ \E name \in FlowNames, steps \in ExecLists :
            DOMAIN flows = {} /\ CreateFlow(name, steps)
    \/ \E f \in DOMAIN flows, version_no \in {NoVersion, 1} : ExecuteFlow(f, version_no)
    \/ CreateRunSteps
    \/ StepSkip
    \/ StepBegin
    \/ StepDispatch
    \/ StepExcept
    \/ RunComplete
    \/ RunFail
    \/ \E f \in FlowIds : DeleteFlow(f)

SpecExec == Init /\ [][NextExec]_vars

\* The steps of the dispatch specification, each shape under an id of its own:
\* a supported action; an unsupported action under no onError, stop, continue,
\* an unrecognised policy and null; an empty connector and a missing action; a
\* connector given as a list, whose lookup raises; a failing step with a retry
\* configuration; a step with a null id and one without an id.
DispatchSteps ==
    {MkStep("ok", "step", "sql", "query", Absent),
     MkStep("e1", "step", "sql", "bogus", Absent),
     MkStep("e2", "step", "sql", "bogus", "stop"),
     MkStep("e3", "step", "sql", "bogus", "continue"),
     MkStep("e4", "step", "sql", "bogus", "abort"),
     MkStep("e5", "step", "sql", "bogus", None),
     MkStep("n1", "step", "", "query", Absent),
     MkStep("n2", "step", "sql", Absent, Absent),
     MkStep("x1", "step", ListOfNames, "query", Absent),
     MkStep("x2", "step", ListOfNames, "query", "continue"),
     WithRetry(MkStep("r1", "step", "sql", "bogus", Absent), RetryEnabled),
     WithRetry(MkStep("r2", "step", "sql", "bogus", "continue"), RetryEnabled),
     MkStep(None, "step", "sql", "query", Absent),
     MkStep(Absent, "step", "sql", "query", Absent)}

DispatchLists == SeqsUpTo(DispatchSteps, MaxDispatchLen)

\* One flow and its runs: every commit of execute_flow is a step.
NextDispatch ==
    \/ \E name \in FlowNames, steps \in DispatchLists :
            DOMAIN flows = {} /\ CreateFlow(name, steps)
    \/ \E f \in DOMAIN flows : ExecuteFlow(f, NoVersion)
    \/ CreateRunSteps
    \/ CreateRunStepsRaise
    \/ StepSkip
    \/ StepBegin
    \/ StepDispatch
    \/ StepExcept
    \/ RunComplete
    \/ RunFail

SpecDispatch == Init /\ [][NextDispatch]_vars

\* Two execute_flow calls at a time on one flow: steps that succeed, fail
\* under the default policy and fail under continue, under one id or two, and
\* a step without an id.
PairSteps ==
    {MkStep(id, "step", "sql", k[1], k[2]) :
        id \in StepIds,
        k \in {<<"query", Absent>>, <<"bogus", Absent>>, <<"bogus", "continue">>}}
    \cup {MkStep(Absent, "step", "sql", "query", Absent)}

PairLists == SeqsUpTo(PairSteps, MaxPairLen) \ {<<>>}

NextPair ==
    \/ \E name \in FlowNames, steps \in PairLists :
            DOMAIN flows = {} /\ CreateFlow(name, steps)
    \/ \E p \in Sessions, f \in DOMAIN flows : ExecuteFlowIn(p, f)
    \/ \E p \in Sessions :
            \/ CreateRunStepsIn(p)
            \/ StepSkipIn(p)
            \/ StepBeginIn(p)
            \/ StepDispatchIn(p)
            \/ StepExceptIn(p)
            \/ RunCompleteIn(p)
            \/ RunFailIn(p)

SpecPair == Init /\ [][NextPair]_vars

\* The flow definitions given to validate_flow: steps with and without each of
\* id, name and type, under two ids; the top-level keys there or not.
ValSteps ==
    [id : {Absent, "a", "b"}, name : {Absent, "step"}, type : {Absent, "connector"}]

ValContents ==
    [id : {"1"}, name : {"Echo"}, has_steps : {TRUE}, steps : SeqsUpTo(ValSteps, MaxValLen)]
    \cup [id : {Absent, "1"}, name : {Absent, "Echo"}, has_steps : {FALSE}, steps : {<<>>}]
    \cup [id : {Absent, "1"}, name : {Absent, "Echo"}, has_steps : {TRUE},
          steps : SeqsUpTo(ValSteps, 1)]

InitValidate ==
    /\ flows = <<>>
    /\ flow_versions = <<>>
    /\ files = <<>>
    /\ runs = <<>>
    /\ run_steps = <<>>
    /\ ex = ExIdle
    /\ reg = NoRegCall
    /\ last = Call("none", 0, FALSE, TRUE, None, NoArgs, <<>>, <<>>, 0)
    /\ hist = [mods |-> <<>>, created |-> <<>>]
    /\ connectors = <<>>
    /\ sess = [p \in Sessions |-> SessIdle]
    /\ val \in [flow_content : ValContents, result : {NotValidated}]

NextValidate == ValidateFlow

SpecValidate == InitValidate /\ [][NextValidate]_vars

\* Initialisations of the connector registry by two sessions on one database.
NextInit ==
    \E p \in Sessions :
        \/ InitBegin(p)
        \/ InitQuery(p)
        \/ InitCommit(p)
        \/ SessClose(p)

SpecInit == Init /\ [][NextInit]_vars

\* FlowManager calls of two sessions and an execute_flow call on one
\* database, commit by commit; one flow, whose steps all succeed.
ConcSteps == {MkStep(id, "step", "sql", "query", Absent) : id \in StepIds}

ConcLists == {<<st>> : st \in ConcSteps}

NextConc ==
    \/ \E p \in Sessions, name \in FlowNames, steps \in ConcLists :
            DOMAIN flows = {} /\ CreateFlowCommitFlow(p, name, steps)
    \/ \E p \in Sessions : CreateFlowCommitVersion(p)
    \/ \E p \in Sessions : CreateFlowWriteFails(p)
    \/ \E p \in Sessions, f \in DOMAIN flows, steps \in ConcLists : UpdateFlowRead(p, f, steps)
    \/ \E p \in Sessions, f \in DOMAIN flows : ModifyFlowStepsLoad(p, f, "a")
    \/ \E p \in Sessions : ModifyFlowStepsRead(p)
    \/ \E p \in Sessions : UpdateFlowWriteFile(p)
    \/ \E p \in Sessions : UpdateFlowCommit(p)
    \/ \E f \in DOMAIN flows, version_no \in {NoVersion, 1} : ExecuteFlowLoad(f, version_no)
    \/ ExecuteFlowResolve
    \/ CreateRunSteps
    \/ StepBegin
    \/ StepDispatch
    \/ RunComplete

SpecConc == Init /\ [][NextConc]_vars

\* Calls with arguments that name no flow, no version, no step or no
\* operation, among calls that succeed; one flow at a time.
ErrSteps ==
    {MkStep("a", "step", "sql", "query", Absent), MkStep("a", "step", "sql", "bogus", Absent),
     MkStep(Absent, "step", "sql", "query", Absent)}

ErrLists == SeqsUpTo(ErrSteps, MaxErrLen)

ModActions == {"insert_step", "update_step", "delete_step"}

NextErrors ==
    \/ \E name \in FlowNames, steps \in ErrLists :
            DOMAIN flows = {} /\ CreateFlow(name, steps)
    \/ \E f \in FlowIds, action \in ModActions \cup {"rename_step"},
          anchor \in StepIds \cup {None}, position \in {"after", None},
          new_step \in {MkStep("b", "step", "sql", "query", Absent), EmptyStep},
          step_id \in StepIds \cup {None} :
            ModifyFlowSteps(f, action, anchor, position, new_step, step_id)
    \/ \E f \in FlowIds, version_no \in {NoVersion} \cup (1..MaxVersionRows) :
            ExecuteFlow(f, version_no)
    \/ CreateRunSteps
    \/ StepSkip
    \/ StepBegin
    \/ StepDispatch
    \/ StepExcept
    \/ RunComplete
    \/ RunFail

SpecErrors == Init /\ [][NextErrors]_vars

(***************************************************************************)
(* Properties of the flow store (specification Spec).                      *)
(***************************************************************************)
\* the step list load_flow_content returns for the current version
CurrentSteps(flow_id) == load_flow_content(flow_id, NoVersion).steps

\* the last call was a successful modify_flow_steps with this action
Modified(action) ==
    /\ last.op = "modify_flow_steps"
    /\ last.ok
    /\ last.args.action = action

\* the first position (from 1) of a step with this id in a list that has one
FirstWithId(L, id) ==
    CHOOSE i \in 1..Len(L) :
        /\ L[i].id = id
        /\ \A j \in 1..(i - 1) : L[j].id # id

\* C1: after creation and N successful create_new_version / apply_modification
\* calls, current_version = 1 + N, and there is exactly one FlowVersion row,
\* with a loadable step list, for each of 1..current_version and none above.
C1_VersionsContiguous ==
    \A f \in DOMAIN flows :
        /\ flows[f].current_version = 1 + hist.mods[f]
        /\ \A n \in 1..flows[f].current_version :
                /\ Len(VersionRows(f, n)) = 1
                /\ load_flow_content(f, n).found
        /\ \A k \in 1..Len(flow_versions) :
                flow_versions[k].flow_id = f
                    => flow_versions[k].version_no \in 1..flows[f].current_version

C1_Witness ==
    \E f \in DOMAIN flows :
        /\ hist.mods[f] = 2
        /\ flows[f].current_version = 3
        /\ Modified("insert_step")

\* C2: create, create_new_version and apply_modification reject a step list in
\* which two steps share an id, so no stored FlowVersion holds two steps with
\* the same id.
DistinctIds(steps) ==
    \A i, j \in 1..Len(steps) : (i # j /\ steps[i].id # Absent) => steps[i].id # steps[j].id

C2_NoDuplicateIdsStored ==
    /\ (last.ok /\ last.op \in {"create_flow", "update_flow", "modify_flow_steps"})
            => DistinctIds(last.steps)
    /\ \A k \in 1..Len(flow_versions) :
            DistinctIds(load_flow_content(flow_versions[k].flow_id,
                                          flow_versions[k].version_no).steps)

\* C6: insert_step(anchor, position, S) on the list L whose first step with id
\* anchor is at i stores L[..i-1] + [S] + L[i..] for before and
\* L[..i] + [S] + L[i+1..] for after as the new current version.
C6_InsertPlacesStep ==
    (Modified("insert_step") /\ last.args.position \in {"before", "after"}) =>
        LET L == last.before
            S == last.args.new_step
            i == FirstWithId(L, last.args.anchor_step_id)
            N == CurrentSteps(last.flow_id)
        IN  /\ Len(N) = Len(L) + 1
            /\ IF last.args.position = "before"
               THEN /\ N[i] = S
                    /\ \A j \in 1..(i - 1) : N[j] = L[j]
                    /\ \A j \in i..Len(L) : N[j + 1] = L[j]
               ELSE /\ N[i + 1] = S
                    /\ \A j \in 1..i : N[j] = L[j]
                    /\ \A j \in (i + 1)..Len(L) : N[j + 1] = L[j]

\* an insert after the first of two steps that carry the anchor's id
C6_Witness ==
    /\ Modified("insert_step")
    /\ last.args.position = "after"
    /\ Len(last.before) = 2
    /\ last.before[1].id = last.args.anchor_step_id
    /\ last.before[2].id = last.args.anchor_step_id
    /\ last.args.new_step.id = "b"

\* C7: update_step(id, S) stores a new version in which the first step with
\* that id is replaced by S at the same index; the length and every other
\* step are unchanged.
C7_UpdateReplacesInPlace ==
    Modified("update_step") =>
        LET L == last.before
            S == last.args.new_step
            i == FirstWithId(L, last.args.step_id)
            N == CurrentSteps(last.flow_id)
        IN  /\ Len(N) = Len(L)
            /\ N[i] = S
            /\ \A j \in 1..Len(L) : j # i => N[j] = L[j]

\* an update of the first of two steps that carry the id, by a step that
\* differs from both
C7_Witness ==
    /\ Modified("update_step")
    /\ Len(last.before) = 2
    /\ last.before[1].id = last.args.step_id
    /\ last.before[2].id = last.args.step_id
    /\ last.args.new_step \notin {last.before[1], last.before[2]}

\* the steps of L whose id is not id, in their order
RECURSIVE Others(_, _)
Others(L, id) ==
    IF L = <<>> THEN <<>>
    ELSE IF Head(L).id = id THEN Others(Tail(L), id)
    ELSE <<Head(L)>> \o Others(Tail(L), id)

\* C8: delete_step(id) stores a new version that holds no step with that id
\* and every other step of the previous version once, unchanged, in the same
\* relative order.
C8_DeleteKeepsOthers ==
    Modified("delete_step") =>
        LET N == CurrentSteps(last.flow_id)
        IN  /\ \A j \in 1..Len(N) : N[j].id # last.args.step_id
            /\ N = Others(last.before, last.args.step_id)

\* a delete that removes two steps and keeps a third
C8_Witness ==
    /\ Modified("delete_step")
    /\ Len(last.before) = 3
    /\ Len(CurrentSteps(last.flow_id)) = 1

(***************************************************************************)
(* Properties of the executor (specification SpecExec).                    *)
(***************************************************************************)
\* execute_flow has returned or raised; ex holds the run it made
Done == ex.pc = "done"

\* the RunStep row created for the step at position j of the step list
RunStepAt(run_id, j) == run_steps[RunStepRows(run_id)[j]]

Terminal == {"completed", "failed"}

\* the step's action is not among the capabilities of its connector
Unsupported(step) ==
    /\ step.connector # Absent /\ step.action # Absent
    /\ IsRegistered(step.connector)
    /\ step.action \notin SeqToSet(Capabilities(step.connector))

\* every step has an id and no two steps share one: the conditions validate_flow
\* puts on step ids
ValidIds(steps) ==
    /\ \A i \in 1..Len(steps) : steps[i].id # Absent
    /\ DistinctIds(steps)

\* C3: executing [A, B, ...rest], where A's dispatch succeeds and B's action is
\* not in its connector's capabilities and B has no onError, ends with the Run
\* failed, RunStep(A) completed, RunStep(B) failed, and every later RunStep
\* pending with no connector invoked for it.
C3_StopAbortsRun ==
    (/\ Done
     /\ Len(ex.steps) >= 2
     /\ ex.calls[1] = 1 /\ Dispatch(ex.steps[1]).result.status = "success"
     /\ Unsupported(ex.steps[2]) /\ ex.steps[2].onError = Absent)
    => /\ runs[ex.run_id].status = "failed"
       /\ RunStepAt(ex.run_id, 1).status = "completed"
       /\ RunStepAt(ex.run_id, 2).status = "failed"
       /\ \A j \in 3..Len(ex.steps) :
            /\ RunStepAt(ex.run_id, j).status = "pending"
            /\ ex.calls[j] = 0

\* C3 on the step lists whose ids are present and distinct
StopAbortsRun_ValidIds == ValidIds(ex.steps) => C3_StopAbortsRun

\* C4: a step whose dispatch returns an error under onError = continue is
\* recorded as failed and does not abort the run: when no step fails under the
\* stop policy the Run ends completed and every step has been executed, its
\* RunStep completed or failed as its dispatch returned.
C4_ContinueKeepsRunning ==
    Done =>
        /\ \A i \in 1..Len(ex.steps) :
            (/\ ex.calls[i] >= 1
             /\ Dispatch(ex.steps[i]).result.status = "error"
             /\ ex.steps[i].onError = "continue")
            => RunStepAt(ex.run_id, i).status = "failed"
        /\ ~ex.raised =>
            /\ runs[ex.run_id].status = "completed"
            /\ \A j \in 1..Len(ex.steps) :
                RunStepAt(ex.run_id, j).status =
                    IF Dispatch(ex.steps[j]).result.status = "error"
                    THEN "failed" ELSE "completed"

\* C4 on the step lists whose ids are present and distinct
ContinueKeepsRunning_ValidIds == ValidIds(ex.steps) => C4_ContinueKeepsRunning

\* C5: when a step failing under the stop policy aborts the run, every RunStep
\* at a position up to and including the failing step is completed or failed,
\* and the Run is failed with finished_at set; it is never left running.
C5_StopLeavesTerminalTrail ==
    /\ Done => runs[ex.run_id].status # "running"
    /\ (Done /\ ex.raised) =>
        /\ \A j \in 1..ex.i : RunStepAt(ex.run_id, j).status \in Terminal
        /\ runs[ex.run_id].status = "failed"
        /\ runs[ex.run_id].finished_at # None

\* C5 on the step lists whose ids are present and distinct
StopLeavesTerminalTrail_ValidIds == ValidIds(ex.steps) => C5_StopLeavesTerminalTrail

\* the records of flow f: FlowVersion rows, version files, Runs, RunSteps
NoRecordsOf(f, versions, artifacts, theRuns, theRunSteps, runIds) ==
    /\ \A k \in 1..Len(versions) : versions[k].flow_id # f
    /\ \A path \in DOMAIN artifacts : path[1] # f
    /\ \A r \in DOMAIN theRuns : theRuns[r].flow_id # f
    /\ \A k \in 1..Len(theRunSteps) : theRunSteps[k].run_id \notin runIds

\* a delete_flow step of a stored flow removes the flow and all its records
DeleteCascades ==
    (last'.op = "delete_flow" /\ last'.found)
    => /\ last'.flow_id \in DOMAIN flows
       /\ last'.flow_id \notin DOMAIN flows'
       /\ NoRecordsOf(last'.flow_id, flow_versions', files', runs', run_steps',
                      RunsOf(last'.flow_id))

\* a delete_flow step of a flow that is not stored changes nothing
DeleteOfMissingIsNoOp ==
    (last'.op = "delete_flow" /\ ~last'.found)
    => UNCHANGED <<flows, flow_versions, files, runs, run_steps>>

\* a create_flow step yields a flow at version 1 with that one version and no runs
CreateStartsAtOne ==
    (last'.op = "create_flow" /\ last'.ok)
    => /\ last'.flow_id \notin DOMAIN flows
       /\ flows'[last'.flow_id].current_version = 1
       /\ \A k \in 1..Len(flow_versions') :
            flow_versions'[k].flow_id = last'.flow_id => flow_versions'[k].version_no = 1
       /\ \A r \in DOMAIN runs' : runs'[r].flow_id # last'.flow_id

\* a create_flow step right after the delete of a stored flow yields another id
CreateAfterDeleteIsFresh ==
    (last.op = "delete_flow" /\ last.found /\ last'.op = "create_flow")
    => last'.flow_id # last.flow_id

\* C9 without the freshness of the new id
DeleteAndRecreate_ExceptFreshId ==
    [][DeleteCascades /\ DeleteOfMissingIsNoOp /\ CreateStartsAtOne]_vars

\* C9: after delete(flow_id) no FlowVersion, Run or RunStep of that flow remains
\* and the flow is not found; delete of a flow that does not exist changes
\* nothing; a later create with the same name yields a flow with a fresh id and
\* current_version = 1 that carries none of the deleted flow's versions or runs.
C9_DeleteAndRecreate ==
    [][/\ DeleteCascades
       /\ DeleteOfMissingIsNoOp
       /\ CreateStartsAtOne
       /\ CreateAfterDeleteIsFresh]_vars

(***************************************************************************)
(* Properties of the connector registry (specification SpecRegistry).      *)
(***************************************************************************)
\* C10: run(connector_name, action, params) yields a not-found error and invokes
\* no adapter when connector_name is unregistered; yields an unsupported-action
\* error carrying the connector's supported-action list and invokes no adapter
\* when action is not in capabilities(connector_name); otherwise invokes that
\* connector's adapter exactly once and returns the adapter's result unmodified.
C10_RegistryRun ==
    reg # NoRegCall =>
        IF reg.connector_name \notin SeqToSet(ConnectorNames)
        THEN /\ reg.result.status = "error"
             /\ reg.result.message = <<"Connector not found: ", reg.connector_name>>
             /\ "supported_actions" \notin DOMAIN reg.result
             /\ reg.adapter_calls = <<>>
        ELSE IF reg.action \notin SeqToSet(Capabilities(reg.connector_name))
        THEN /\ reg.result.status = "error"
             /\ "supported_actions" \in DOMAIN reg.result
             /\ reg.result.supported_actions = Capabilities(reg.connector_name)
             /\ reg.adapter_calls = <<>>
        ELSE /\ reg.adapter_calls = << <<reg.connector_name, reg.action, reg.params>> >>
             /\ reg.result = AdapterRun(reg.connector_name, reg.action, reg.params)

\* a registered connector was asked for an action outside its capabilities
C10_Witness ==
    /\ reg.connector_name = "email"
    /\ reg.action = "query"
    /\ reg.adapter_calls = <<>>
    /\ reg.result.status = "error"

(***************************************************************************)
(* The flow Echo (specification SpecExec).                                 *)
(***************************************************************************)
\* C11: the flow Echo with the single step {id s1, connector local_file, action
\* read_file} is created at version 1, and executing it dispatches the step to
\* the connector and ends with the Run completed and RunStep s1 completed
\* carrying the result of the read.
C11_EchoCompletes ==
    (Done /\ ex.steps = <<EchoStep>>)
    => /\ ex.version_no = 1
       /\ ex.calls[1] = 1
       /\ runs[ex.run_id].status = "completed"
       /\ RunStepAt(ex.run_id, 1).step_id = "s1"
       /\ RunStepAt(ex.run_id, 1).status = "completed"
       /\ RunStepAt(ex.run_id, 1).result_json[1].status = "success"

(***************************************************************************)
(* The step plan of a run (specification SpecExec).                        *)
(***************************************************************************)
\* no connector has been invoked for a step of the run
NothingDispatched == \A j \in 1..Len(ex.steps) : ex.calls[j] = 0

\* one RunStep per step of the executed list, in step order, under the step's id
PlanPersisted ==
    /\ Len(RunStepRows(ex.run_id)) = Len(ex.steps)
    /\ \A j \in 1..Len(ex.steps) :
        /\ ex.steps[j].id # Absent => RunStepAt(ex.run_id, j).step_id = ex.steps[j].id
        /\ RunStepAt(ex.run_id, j).name = ex.steps[j].name

C19_FailedResultIsPayload ==
    Done =>
        \A i \in 1..Len(ex.steps) :
            (ex.calls[i] >= 1 /\ Dispatch(ex.steps[i]).result.status = "error")
            => /\ RunStepAt(ex.run_id, i).status = "failed"
               /\ RunStepAt(ex.run_id, i).result_json = <<Dispatch(ex.steps[i]).result>>

\* C19 for the steps that fail under onError = continue, ids present and distinct
FailedResultIsPayload_Continue ==
    (Done /\ ValidIds(ex.steps)) =>
        \A i \in 1..Len(ex.steps) :
            (/\ ex.calls[i] >= 1
             /\ Dispatch(ex.steps[i]).result.status = "error"
             /\ ~StopsOnError(ex.steps[i]))
            => /\ RunStepAt(ex.run_id, i).status = "failed"
               /\ RunStepAt(ex.run_id, i).result_json = <<Dispatch(ex.steps[i]).result>>

\* the status changes of a RunStep: pending -> running -> completed | failed
StatusChanges ==
    {<<"pending", "running">>, <<"running", "completed">>, <<"running", "failed">>}

\* the rows of run_steps that a step of the model keeps
SameRows ==
    /\ Len(run_steps') >= Len(run_steps)
    /\ \A k \in 1..Len(run_steps) : run_steps'[k].run_id = run_steps[k].run_id

RunStepChangesAllowed ==
    SameRows =>
        \A k \in 1..Len(run_steps) :
            \/ run_steps'[k].status = run_steps[k].status
            \/ <<run_steps[k].status, run_steps'[k].status>> \in StatusChanges

\* C20: in every run of every flow version that can be stored, each RunStep's
\* status only ever changes pending -> running -> completed or
\* pending -> running -> failed: it never skips running, and once completed or
\* failed it never changes status again.
C20_RunStepStatusOrder == [][RunStepChangesAllowed]_vars

\* C20 on the step lists whose ids are present and distinct
RunStepStatusOrder_ValidIds ==
    [][(ex.pc # "idle" /\ ValidIds(ex.steps)) => RunStepChangesAllowed]_vars

(***************************************************************************)
(* Lookup and operation-name errors (specification SpecErrors).            *)
(***************************************************************************)
LookupErrors == {"Flow not found", "Anchor step not found", "Step not found", "Unknown action"}

HasId(steps, id) == \E i \in 1..Len(steps) : steps[i].id = id

\* a call that raised a lookup or operation-name error wrote nothing
FailedLookupWritesNothing ==
    (~last'.ok /\ last'.error \in LookupErrors)
    => UNCHANGED <<flows, flow_versions, files, runs, run_steps>>

\* an execute_flow call that went on to create a Run named a stored flow and
\* a stored version of it
ExecuteNamedStoredVersion ==
    (last' # last /\ last'.op = "execute_flow" /\ last'.ok)
    => /\ HasFlow(last'.flow_id)
       /\ VersionRows(last'.flow_id, ex'.version_no) # <<>>

\* a modify_flow_steps call that went on to write a version named a stored
\* flow, a known operation and a step of the list it loaded
ModifyNamedStoredStep ==
    (last' # last /\ last'.op = "modify_flow_steps" /\ last'.ok)
    => /\ HasFlow(last'.flow_id)
       /\ last'.args.action \in ModActions
       /\ last'.args.action = "insert_step"
            => HasId(last'.before, last'.args.anchor_step_id)
       /\ last'.args.action = "update_step"
            => HasId(last'.before, last'.args.step_id)

\* C13: an operation that fails on a lookup or operation-name error performs no
\* work: execute on a missing flow or version creates no Run and no RunStep;
\* apply_modification with a missing flow, an absent anchor, an absent target of
\* update_step or an unrecognised operation name creates no FlowVersion and
\* leaves current_version unchanged.
C13_LookupErrorsDoNoWork ==
    [][/\ FailedLookupWritesNothing
       /\ ExecuteNamedStoredVersion
       /\ ModifyNamedStoredStep]_vars

\* an insert_step on a stored flow failed on its anchor, after a run of the flow
C13_Witness ==
    /\ last.op = "modify_flow_steps"
    /\ ~last.ok
    /\ last.found
    /\ last.error = "Anchor step not found"
    /\ runs # <<>>

(***************************************************************************)
(* Immutable versions.                                                     *)
(***************************************************************************)
\* every version created loads as the step list it was created with
VersionsLoadAsCreated ==
    \A key \in DOMAIN hist.created :
        /\ load_flow_content(key[1], key[2]).found
        /\ load_flow_content(key[1], key[2]).steps = hist.created[key]

\* a run of an explicitly numbered version runs the list the version was created with
NumberedRunUsesCreated ==
    (ex.pc \notin {"idle", "loaded"} /\ ex.requested # NoVersion)
    => /\ ex.version_no = ex.requested
       /\ runs[ex.run_id].version_no = ex.requested
       /\ <<ex.flow_id, ex.requested>> \in DOMAIN hist.created
       /\ ex.steps = hist.created[<<ex.flow_id, ex.requested>>]
       /\ ex.pc # "run_created" => PlanPersisted

\* C14: a FlowVersion is immutable: for every flow and every version number k
\* ever created, loading version k returns the same step list after any later
\* modifications of the flow as right after version k was created, and
\* execute(flow_id, k) materialises and runs exactly that step list, also when k
\* is no longer the current version.
C14_VersionsImmutable == VersionsLoadAsCreated /\ NumberedRunUsesCreated

\* calls made one at a time (SpecErrors): version 1 is run by number after two
\* later versions were written
VersionsImmutable_SerialWitness ==
    /\ ex.pc = "done" /\ ex.requested = 1
    /\ flows[runs[ex.run_id].flow_id].current_version = 3

(***************************************************************************)
(* Initialisation of the connector registry (specification SpecInit).      *)
(***************************************************************************)
\* the store holds at most one registration per name, and each is the row of
\* a built-in connector
OneRegistrationPerName ==
    /\ \A j, k \in 1..Len(connectors) : connectors[j].name = connectors[k].name => j = k
    /\ \A k \in 1..Len(connectors) :
        /\ connectors[k].name \in SeqToSet(ConnectorNames)
        /\ connectors[k] = ConnectorRow(connectors[k].name)

\* after an initialisation has finished, every built-in connector is registered
AllRegisteredAfterInit ==
    (\E p \in Sessions : sess[p].pc \in {"init_done", "init_failed"})
    => \A name \in SeqToSet(ConnectorNames) : Registered(name)

\* C17 without the claim that no initialisation fails
InitKeepsOnePerName == OneRegistrationPerName /\ AllRegisteredAfterInit

\* C17: registry initialisation is an idempotent upsert keyed by name: after any
\* number of initialisations, including two that interleave on an empty store,
\* the store holds exactly one registration per built-in connector name, and no
\* initialisation fails or changes an existing registration.
C17_InitIdempotent ==
    /\ OneRegistrationPerName
    /\ AllRegisteredAfterInit
    /\ \A p \in Sessions : sess[p].pc # "init_failed"

(***************************************************************************)
(* Calls of sessions that work at the same time (specification SpecConc).  *)
(***************************************************************************)
\* C15: create does not partially persist: in every state that another
\* operation can observe, and after a create that fails part-way, a Flow record
\* exists only together with its FlowVersion(1): every stored Flow has a
\* FlowVersion whose version_no equals the flow's current_version.
C15_FlowHasCurrentVersion ==
    \A f \in DOMAIN flows : VersionRows(f, flows[f].current_version) # <<>>

\* C16: for every Run, the step list materialised as RunSteps and executed is
\* the step list of FlowVersion(Run.flow_id, Run.version_no), also when execute
\* is called without a version number and a create_new_version on the same flow
\* comes between the executor's load of the step list and its resolution of the
\* version number.
C16_RunExecutesItsVersion ==
    ex.pc \notin {"idle", "loaded"}
    => /\ runs[ex.run_id].flow_id = ex.flow_id
       /\ runs[ex.run_id].version_no = ex.version_no
       /\ <<ex.flow_id, ex.version_no>> \in DOMAIN hist.created
       /\ ex.steps = hist.created[<<ex.flow_id, ex.version_no>>]
       /\ ex.pc # "run_created" => PlanPersisted

\* calls made one at a time (SpecErrors): a run without a version number ran
\* the current version, which was not the first
RunExecutesItsVersion_SerialWitness ==
    /\ ex.pc = "done" /\ ex.requested = NoVersion
    /\ ex.version_no = 2

\* no two FlowVersion rows of a flow share a version_no
VersionNumbersUnique ==
    \A j, k \in 1..Len(flow_versions) :
        (/\ flow_versions[j].flow_id = flow_versions[k].flow_id
         /\ flow_versions[j].version_no = flow_versions[k].version_no) => j = k

\* C18: under any interleaving of two concurrent create_new_version /
\* apply_modification calls on the same flow that both succeed, no two
\* FlowVersion records of the flow share a version_no, and current_version has
\* advanced by 2 (by one per successful call) with both new versions loadable.
C18_ConcurrentUpdatesBothCount ==
    \A f \in DOMAIN flows :
        (/\ Writers = 0
         /\ VersionRows(f, 1) # <<>>
         /\ hist.mods[f] = 2)
        => /\ VersionNumbersUnique
           /\ flows[f].current_version = 3
           /\ load_flow_content(f, 2).found
           /\ load_flow_content(f, 3).found

(***************************************************************************)
(* delete_step of an id no step has (specification Spec).                  *)
(***************************************************************************)
\* delete_step(step_id) of the current version of every stored flow raises
\* nothing, removes every step of that id and, when no step has the id, gives
\* the list back as it was
DeleteStepNeverFails ==
    \A f \in DOMAIN flows, id \in StepIds :
        LET steps == CurrentSteps(f)
            m == ModifiedSteps(steps, "delete_step", None, None, EmptyStep, id)
        IN  /\ m.error = None
            /\ ~HasId(m.steps, id)
            /\ ~HasId(steps, id) => m.steps = steps

\* a delete_step call that returned wrote one new version, numbered one above
\* the version it loaded, that holds the steps of other ids
DeleteStepAdvances ==
    \A f \in DOMAIN flows :
        (/\ last'.op = "modify_flow_steps" /\ last'.ok
         /\ last'.args.action = "delete_step"
         /\ last'.flow_id = f
         /\ flow_versions' # flow_versions)
        => /\ flows'[f].current_version = flows[f].current_version + 1
           /\ Len(flow_versions') = Len(flow_versions) + 1
           /\ last'.before = CurrentSteps(f)
           /\ CurrentSteps(f)' = Others(last'.before, last'.args.step_id)
           /\ ~HasId(last'.before, last'.args.step_id)
                => CurrentSteps(f)' = last'.before

\* C25: delete_step(step_id) on a current version in which no step has that id
\* raises no error and still creates a new FlowVersion with the same step list,
\* advancing current_version by 1; when several steps share the id, all of
\* them are removed in that one new version.
C25_DeleteUnmatchedStillVersions ==
    /\ []DeleteStepNeverFails
    /\ [][DeleteStepAdvances]_vars

\* a delete_step of an id that no step of the loaded list had wrote version 2
\* with the same non-empty list
C25_Witness ==
    /\ Modified("delete_step")
    /\ last.before # <<>>
    /\ ~HasId(last.before, last.args.step_id)
    /\ flows[last.flow_id].current_version = 2
    /\ CurrentSteps(last.flow_id) = last.before

(***************************************************************************)
(* Capabilities and adapters (specification SpecRegistry).                 *)
(***************************************************************************)
\* C29: for each built-in connector and each action in its capabilities(),
\* run(action, params) is handled by the adapter and does not return an
\* 'Unknown action' error: every action that passes the capability check of
\* the registry is implemented by the adapter it is dispatched to.
C29_CapabilitiesImplemented ==
    reg.adapter_calls # <<>>
    => /\ reg.action \in SeqToSet(Capabilities(reg.connector_name))
       /\ reg.result # UnknownAction(reg.action)

(***************************************************************************)
(* Properties of a step's dispatch (specification SpecDispatch).           *)
(***************************************************************************)
\* the dispatch of the step returns a result of status error
ReturnsError(step) ==
    /\ ~Dispatch(step).raised
    /\ Dispatch(step).result.status = "error"

\* the commit that follows a dispatch that returned an error records the step
\* as failed; the call goes to the exception handler when onError is stop or
\* absent, and to the next step otherwise
ErrorStepOutcome ==
    (ex.pc = "dispatch" /\ ReturnsError(ex.steps[ex.i]))
    => /\ run_steps'[ex.row].status = "failed"
       /\ IF ex.steps[ex.i].onError \in {"stop", Absent}
          THEN ex'.pc = "step_except" /\ ex'.i = ex.i
          ELSE ex'.pc = "loop" /\ ex'.i = ex.i + 1

\* from the exception handler on no step is begun or dispatched and the Run is
\* committed as failed
ExceptAbortsRun ==
    (ex.pc \in {"step_except", "run_except"})
    => /\ ex'.pc \in {"run_except", "done"}
       /\ ex'.i = ex.i /\ ex'.calls = ex.calls
       /\ \A k \in 1..Len(run_steps) : k # ex.row => run_steps'[k] = run_steps[k]
       /\ ex'.pc = "done" => (ex'.raised /\ runs'[ex.run_id].status = "failed")

RaisesOnLookup(step) == step.connector = ListOfNames /\ Truthy(step.action)

\* position j of the step list was begun: its RunStep was committed as running
Begun(j) == \E n \in 1..Len(ex.log) : ex.log[n] = <<"begin", j>>

\* the exception of a dispatch has left _execute_step
Propagated(i) ==
    /\ ex.pc \in {"run_except", "done"}
    /\ ex.i = i /\ i \in 1..Len(ex.steps)
    /\ ex.calls[i] >= 1
    /\ RaisesOnLookup(ex.steps[i])

FinishedIffTerminal ==
    \A r \in DOMAIN runs :
        /\ runs[r].status \in {"running"} \cup Terminal
        /\ runs[r].finished_at # None <=> runs[r].status \in Terminal

\* a Run is created running and its status changes once, from running to
\* completed or to failed
RunStatusChangesOnce ==
    \A r \in DOMAIN runs' :
        IF r \in DOMAIN runs
        THEN runs'[r].status # runs[r].status
             => (runs[r].status = "running" /\ runs'[r].status \in Terminal)
        ELSE runs'[r].status = "running"

\* execute_flow has returned or raised after it made a Run: the Run is terminal
DoneIsTerminal == Done => runs[ex.run_id].status \in Terminal

\* C21: a Run is created in status running, moves to exactly one of completed
\* or failed exactly once and never changes status afterwards, has finished_at
\* set exactly when its status is terminal, and is in a terminal status
\* whenever execute has returned or raised.
C21_RunLifecycle ==
    /\ []FinishedIffTerminal
    /\ [][RunStatusChangesOnce]_vars
    /\ []DoneIsTerminal

\* the same without the last part, and the last part for the step lists in
\* which no id and no name is null
RunLifecycle_NoNullColumn ==
    /\ []FinishedIffTerminal
    /\ [][RunStatusChangesOnce]_vars
    /\ [](~NullColumn(ex.steps) => DoneIsTerminal)

(***************************************************************************)
(* How often a step is dispatched (specification SpecDispatch).            *)
(***************************************************************************)
\* the step declares a connector and an action, both non-empty
Declares(step) == Truthy(step.connector) /\ Truthy(step.action)

\* position i of the step list has been through lines 109-114
Reached(i) == Begun(i) /\ ~(ex.pc = "dispatch" /\ ex.i = i)

\* the registry calls made for position i
DispatchCount(i) ==
    Len(SelectSeq(ex.log, LAMBDA e : e = <<"dispatch", i>>))

DispatchedOncePerStep ==
    ex.pc # "idle" =>
        \A i \in 1..Len(ex.steps) :
            /\ ex.calls[i] = DispatchCount(i)
            /\ ~Reached(i) => ex.calls[i] = 0
            /\ Reached(i) => ex.calls[i] = (IF Declares(ex.steps[i]) THEN 1 ELSE 0)

\* a step that does not declare both is committed as completed with the
\* synthesized result
UndeclaredCompletes ==
    (ex.pc = "dispatch" /\ ~Declares(ex.steps[ex.i]))
    => /\ run_steps'[ex.row].status = "completed"
       /\ run_steps'[ex.row].result_json =
            << [status |-> "success", message |-> <<"No action specified">>] >>
       /\ ex'.pc = "loop" /\ ex'.i = ex.i + 1

BeginOrder == SelectSeq(ex.log, LAMBDA e : e[1] = "begin")

\* the steps are begun in the order of the list
StartedInListOrder ==
    \A n \in 1..(Len(BeginOrder) - 1) : BeginOrder[n][2] < BeginOrder[n + 1][2]

\* when a position is begun, every position before it has been committed as
\* completed or failed
StartedAfterPredecessors ==
    \A n \in 1..Len(ex.log) :
        ex.log[n][1] = "begin"
        => \A k \in 1..(ex.log[n][2] - 1) :
                \E m \in 1..(n - 1) : ex.log[m] = <<"end", k>>

\* at most one RunStep of a run is running
OneRunning ==
    \A r \in DOMAIN runs :
        Cardinality({k \in SeqToSet(RunStepRows(r)) : run_steps[k].status = "running"}) <= 1

\* C22: within one run, steps are started in the order of the version's step
\* list, step i+1 is started only after step i has been recorded as completed
\* or failed, and at most one RunStep of the run has status running at any time.
C22_StrictlySequential ==
    /\ StartedInListOrder
    /\ StartedAfterPredecessors
    /\ OneRunning

\* the same for the step lists in which every step has an id and no two
\* steps share one
StrictlySequential_ValidIds ==
    (ex.pc # "idle" /\ ValidIds(ex.steps)) => C22_StrictlySequential

\* C27: whenever a Run has status completed, every RunStep of that run has
\* status completed or failed, none is still pending or running, for every
\* step list that can be stored (including lists with repeated or missing
\* step ids).
C27_CompletedRunHasNoOpenStep ==
    \A r \in DOMAIN runs :
        runs[r].status = "completed"
        => \A k \in SeqToSet(RunStepRows(r)) : run_steps[k].status \in Terminal

\* the same for the runs of step lists in which every step has an id and no
\* two steps share one
CompletedRunHasNoOpenStep_ValidIds ==
    (Done /\ ValidIds(ex.steps) /\ runs[ex.run_id].status = "completed")
    => \A k \in SeqToSet(RunStepRows(ex.run_id)) : run_steps[k].status \in Terminal

(***************************************************************************)
(* validate_flow (specification SpecValidate).                             *)
(***************************************************************************)
\* the positions of the steps without an id, a name, a type
NoIdAt(steps) == {i \in 1..Len(steps) : steps[i].id = Absent}
NoNameAt(steps) == {i \in 1..Len(steps) : steps[i].name = Absent}
NoTypeAt(steps) == {i \in 1..Len(steps) : steps[i].type = Absent}

\* the positions of the steps whose id an earlier step has
RepeatAt(steps) ==
    {i \in 1..Len(steps) :
        steps[i].id # Absent /\ \E j \in 1..(i - 1) : steps[j].id = steps[i].id}

Executing(p) == sess[p].pc \notin {"idle", "returned", "raised"}

\* the RunStep a session is working on belongs to the session's run, and two
\* sessions have different runs
OwnRunStep ==
    /\ \A p \in Sessions :
            sess[p].pc \in {"dispatch", "step_except"}
            => run_steps[sess[p].row].run_id = sess[p].run_id
    /\ \A p, q \in Sessions :
            (p # q /\ sess[p].pc # "idle" /\ sess[q].pc # "idle")
            => sess[p].run_id # sess[q].run_id

\* a step of a session's execute_flow call changes no Run and no RunStep of
\* another run, and adds RunSteps to its own run only
WritesOwnRunOnly ==
    \A p \in Sessions :
        (sess'[p] # sess[p] /\ sess'[p].pc # "idle")
        => LET own == sess'[p].run_id
           IN  /\ \A r \in DOMAIN runs : r # own => (r \in DOMAIN runs' /\ runs'[r] = runs[r])
               /\ Len(run_steps') >= Len(run_steps)
               /\ \A k \in 1..Len(run_steps') :
                    IF k <= Len(run_steps)
                    THEN run_steps[k].run_id # own => run_steps'[k] = run_steps[k]
                    ELSE run_steps'[k].run_id = own

\* C30: when two runs of the same flow and version execute concurrently, each
\* execution reads and writes only the Run and RunStep records of its own run:
\* no RunStep is shared between runs, and a RunStep's status or result in one
\* run is never changed by the other run, under any interleaving of their
\* steps.
C30_RunsAreIsolated ==
    /\ []OwnRunStep
    /\ [][WritesOwnRunOnly]_vars

\* both sessions are between the begin and the dispatch of the same step of
\* the same flow, each on a RunStep of its own
C30_Witness ==
    /\ \A p \in Sessions : sess[p].pc = "dispatch" /\ sess[p].i = 1
    /\ sess[1].steps = sess[2].steps
    /\ runs[sess[1].run_id].flow_id = runs[sess[2].run_id].flow_id
    /\ runs[sess[1].run_id].version_no = runs[sess[2].run_id].version_no
    /\ sess[1].row # sess[2].row
    /\ run_steps[sess[1].row].status = "running"
    /\ run_steps[sess[2].row].status = "running"

====
